---- MODULE Spec2Model ----
(***************************************************************************)
(* A model of the DNSSEC proof builder of dnssec-prover (src/query.rs)     *)
(* together with the parts of the wire codec (src/ser.rs) it relies on.    *)
(*                                                                         *)
(* A response is modelled as its 12-byte header (a sequence of bytes, so   *)
(* that truncation and every flag bit are real), followed by the question  *)
(* section and the resource records that follow it on the wire.  A         *)
(* resource record is modelled by the fields parse_wire_packet_rr reads:   *)
(* owner name, type, class, TTL and the outcome of decoding its RDATA.     *)
(* The proof accumulator is the sequence of records write_rr serialised.   *)
(***************************************************************************)
EXTENDS Integers, Sequences, FiniteSets, TLC

(***************************************************************************)
(* Program constants                                                       *)
(***************************************************************************)
MAX_PROOF_STEPS == 20

TXID == 0

\* The inline capacity of a QueryBuf outside test and fuzzing builds.
STACK_BUF_LIMIT == 2048

\* u16::MAX, the largest length a QueryBuf stores.
U16_MAX == 65535

\* The length of an NSEC type table ([u8; 8192]).
NSEC_TABLE_LEN == 8192

\* A u32 is held as its two big-endian 16-bit halves << hi, lo >>, since the
\* checker's integers are 32-bit signed; u32::MAX is << 65535, 65535 >>.
U32(hi, lo) == << hi, lo >>
U32_MAX == U32(65535, 65535)

\* RR type codes (the TYPE constants of the record types).
TYPE_A == 1
TYPE_NS == 2
TYPE_CName == 5
TYPE_Txt == 16
TYPE_AAAA == 28
TYPE_DName == 39
TYPE_DS == 43
TYPE_RRSig == 46
TYPE_NSec == 47
TYPE_DnsKey == 48
TYPE_NSec3 == 50
TYPE_TLSA == 52

\* The types parse_wire_packet_rr dispatches on; every other type is an error.
KnownTypes ==
    { TYPE_A, TYPE_AAAA, TYPE_NS, TYPE_Txt, TYPE_CName, TYPE_DName, TYPE_TLSA,
      TYPE_DnsKey, TYPE_DS, TYPE_RRSig, TYPE_NSec, TYPE_NSec3 }

(***************************************************************************)
(* Bounds of the model                                                     *)
(***************************************************************************)
\* The number of process_response calls explored on one builder.
MaxCalls == 3

\* The number of process_response calls made before the builder is cloned.
MaxPrefix == 1

\* The number of extend_from_slice calls explored on one QueryBuf.
MaxAppends == 2

\* The number of responses fed to a shared builder handle.
MaxFeeds == 2

(***************************************************************************)
(* Names.  Names are ordered as strings; "." sorts before every letter.    *)
(***************************************************************************)
SortedNames == << ".", "a.", "b.", "c.", "d.", "e.", "f.", "g.", "h.", "i.", "j." >>

Range(s) == { s[i] : i \in 1..Len(s) }

Names == Range(SortedNames)

\* cmp::min on u32 values.
Min(a, b) ==
    IF a[1] < b[1] \/ (a[1] = b[1] /\ a[2] < b[2]) THEN a ELSE b

\* Vec::sort_unstable followed by Vec::dedup: the distinct names, ascending.
sort_dedup(names) == SelectSeq(SortedNames, LAMBDA n : n \in Range(names))

(***************************************************************************)
(* Integer helpers: the u16 `&` operator and big-endian reads.             *)
(***************************************************************************)
RECURSIVE BitAnd(_, _)
BitAnd(a, b) ==
    IF a = 0 \/ b = 0 THEN 0
    ELSE (a % 2) * (b % 2) + 2 * BitAnd(a \div 2, b \div 2)

\* read_u16: fails when fewer than two bytes are left, else consumes two.
read_u16(inp) ==
    IF Len(inp) < 2 THEN [ok |-> FALSE, val |-> 0, inp |-> inp]
    ELSE [ok |-> TRUE, val |-> inp[1] * 256 + inp[2], inp |-> SubSeq(inp, 3, Len(inp))]


(***************************************************************************)
(* Wire codec (src/ser.rs)                                                 *)
(***************************************************************************)
\* A resource record as it lies on the wire.  `ok` is the outcome of reading
\* its owner name and of the record type's read_from_data on its RDATA;
\* `covered` and `key_name` are the RRSIG fields (type covered, signer name).
WireRR(name, ty, class, ttl, ok, covered, key_name) ==
    [name |-> name, ty |-> ty, class |-> class, ttl |-> ttl, ok |-> ok,
     covered |-> covered, key_name |-> key_name]

\* parse_wire_packet_rr: reads one record off the front of `inp`.
parse_wire_packet_rr(inp) ==
    IF inp = << >> THEN [ok |-> FALSE, inp |-> inp]     \* nothing left to read
    ELSE LET w == Head(inp) IN
         IF w.class # 1 THEN [ok |-> FALSE, inp |-> inp]
         ELSE IF w.ty \notin KnownTypes THEN [ok |-> FALSE, inp |-> inp]
         ELSE IF ~w.ok THEN [ok |-> FALSE, inp |-> inp]
         ELSE [ok |-> TRUE, inp |-> Tail(inp), ttl |-> w.ttl,
               rr |-> [name |-> w.name, ty |-> w.ty,
                       covered |-> w.covered, key_name |-> w.key_name]]

\* write_rr: owner name, type, class IN, TTL and the length-prefixed RDATA
\* are appended to the output; one entry of the model's proof per record.
write_rr(rr, ttl, out) ==
    Append(out, [name |-> rr.name, ty |-> rr.ty, class |-> 1, ttl |-> ttl,
                 covered |-> rr.covered, key_name |-> rr.key_name])

\* read_nsec_types_bitmap(inp) with the table built so far.  The table is
\* held as the function from the indices written to the bytes written; every
\* other index holds 0.  Indexing a slice or the table past its end panics.
RECURSIVE read_nsec_types_bitmap(_, _)
read_nsec_types_bitmap(inp, res) ==
    IF inp = << >> THEN [status |-> "Ok", res |-> res, inp |-> inp]
    ELSE IF Len(inp) < 2 THEN [status |-> "Err", res |-> res, inp |-> inp]
    ELSE LET block == inp[1]
             len == inp[2]
             rest == SubSeq(inp, 3, Len(inp))
             first == block * 32
         IN IF Len(rest) < first + len
            THEN [status |-> "Err", res |-> res, inp |-> rest]
            ELSE IF first + len > NSEC_TABLE_LEN      \* res[first..first + len]
            THEN [status |-> "Panic", res |-> res, inp |-> rest]
            ELSE read_nsec_types_bitmap(
                    SubSeq(rest, len + 1, Len(rest)),
                    [i \in DOMAIN res \cup (first .. (first + len - 1)) |->
                        IF i >= first /\ i < first + len THEN rest[i - first + 1]
                        ELSE res[i]])

\* types[i] of a table held as read_nsec_types_bitmap builds it: the byte at
\* an index written, 0 at every other index.
TableAt(types, i) == IF i \in DOMAIN types THEN types[i] ELSE 0

\* types.chunks(32) at idx: the 32 bytes of window idx.
chunk(types, idx) == [j \in 1..32 |-> TableAt(types, 32 * idx + j - 1)]

\* flags.iter().rposition(|flag| *flag != 0) on flags that are not all zero
rposition(flags) ==
    CHOOSE j \in 0..31 : flags[j + 1] # 0 /\ \A k \in (j + 1)..31 : flags[k + 1] = 0

\* write_nsec_types_bitmap: the bytes written for the windows first..last,
\* window by window; an all-zero window writes nothing.
RECURSIVE write_nsec_types_bitmap(_, _, _)
write_nsec_types_bitmap(types, first, last) ==
    IF first < last
    THEN LET mid == (first + last) \div 2
         IN write_nsec_types_bitmap(types, first, mid)
               \o write_nsec_types_bitmap(types, mid + 1, last)
    ELSE LET flags == chunk(types, first)
         IN IF flags = [j \in 1..32 |-> 0] THEN << >>
            ELSE LET last_nonzero_idx == rposition(flags)
                 IN << first, last_nonzero_idx + 1 >>
                       \o SubSeq(flags, 1, last_nonzero_idx + 1)

\* nsec_types_bitmap_len: total_len over the windows first..last.
RECURSIVE nsec_types_bitmap_len(_, _, _)
nsec_types_bitmap_len(types, first, last) ==
    IF first < last
    THEN LET mid == (first + last) \div 2
         IN nsec_types_bitmap_len(types, first, mid)
               + nsec_types_bitmap_len(types, mid + 1, last)
    ELSE LET flags == chunk(types, first)
         IN IF flags = [j \in 1..32 |-> 0] THEN 0 ELSE 3 + rposition(flags)

\* core::str::from_utf8(bytes).is_ok(): every byte is a one-byte character,
\* the lead of a well-formed two-, three- or four-byte character, or a
\* continuation byte of one.
utf8_continuation(x) == x >= 128 /\ x <= 191

utf8_width(x) ==
    IF x < 128 THEN 1
    ELSE IF x >= 194 /\ x <= 223 THEN 2
    ELSE IF x >= 224 /\ x <= 239 THEN 3
    ELSE IF x >= 240 /\ x <= 244 THEN 4
    ELSE 0

utf8_second(lead, second) ==
    /\ lead = 224 => second >= 160
    /\ lead = 237 => second <= 159
    /\ lead = 240 => second >= 144
    /\ lead = 244 => second <= 143

from_utf8(bytes) ==
    \A i \in 1..Len(bytes) :
        IF utf8_continuation(bytes[i])
        THEN \E k \in 1..3 :
                /\ i - k >= 1
                /\ utf8_width(bytes[i - k]) > k
                /\ \A t \in 1..(k - 1) : utf8_continuation(bytes[i - t])
        ELSE /\ utf8_width(bytes[i]) > 0
             /\ i + utf8_width(bytes[i]) - 1 <= Len(bytes)
             /\ \A t \in 1..(utf8_width(bytes[i]) - 1) : utf8_continuation(bytes[i + t])
             /\ utf8_width(bytes[i]) > 1 => utf8_second(bytes[i], bytes[i + 1])

\* The dot that ends a label.
Dot == 46

\* One turn of the loop of do_read_wire_packet_labels.  The bytes being read
\* are wire_packet[cur..end] (0-based cur); following a pointer is the
\* recursive call, which reads wire_packet[offs..] with recursion_limit - 1
\* and whose return ends every enclosing call, so no caller's position is
\* kept.  hops counts the pointers followed.
do_read_wire_packet_labels(wire_packet, s) ==
    IF s.cur >= s.end THEN [s EXCEPT !.status = "Err"]               \* read_u8
    ELSE LET len == wire_packet[s.cur + 1]
             inp == s.cur + 1
         IN IF len = 0
            THEN [s EXCEPT !.cur = inp, !.status = "Read",
                           !.name = IF s.name = << >> THEN << Dot >> ELSE s.name]
            ELSE IF len >= 192 /\ s.recursion_limit > 0
            THEN IF inp >= s.end THEN [s EXCEPT !.cur = inp, !.status = "Err"]
                 ELSE LET offs == (len % 64) * 256 + wire_packet[inp + 1]
                      IN IF offs >= Len(wire_packet)
                         THEN [s EXCEPT !.cur = inp + 1, !.status = "Err"]
                         ELSE [s EXCEPT !.cur = offs, !.end = Len(wire_packet),
                                        !.recursion_limit = s.recursion_limit - 1,
                                        !.hops = s.hops + 1]
            ELSE IF s.end - inp <= len THEN [s EXCEPT !.cur = inp, !.status = "Err"]
            ELSE LET label == SubSeq(wire_packet, inp + 1, inp + len)
                 IN IF ~from_utf8(label) THEN [s EXCEPT !.cur = inp, !.status = "Err"]
                    ELSE LET name == s.name \o label \o << Dot >>
                         IN [s EXCEPT !.cur = inp + len, !.name = name,
                                      !.status = IF Len(name) > 255 THEN "Err" ELSE s.status]

\* read_wire_packet_labels: the first call, with recursion_limit 255.
read_wire_packet_labels(cur, end) ==
    [cur |-> cur, end |-> end, name |-> << >>, recursion_limit |-> 255,
     hops |-> 0, status |-> "Reading"]

\* u8::to_ascii_lowercase
to_ascii_lowercase(c) == IF c >= 65 /\ c <= 90 THEN c + 32 ELSE c

\* Name::try_from(String): a name is not empty, ends with a dot, has at
\* most 255 characters, all of them graphic ASCII other than the double
\* quote, and labels of at most 63 characters; it is kept in lower case.
name_try_into(name) ==
    IF \/ name = << >>
       \/ name[Len(name)] # Dot
       \/ Len(name) > 255
       \/ \E i \in 1..Len(name) : name[i] < 33 \/ name[i] > 126 \/ name[i] = 34
       \/ \E i \in 1..(Len(name) - 63) : \A j \in i..(i + 63) : name[j] # Dot
    THEN [status |-> "Err"]
    ELSE [status |-> "Ok", name |-> [i \in 1..Len(name) |-> to_ascii_lowercase(name[i])]]

(***************************************************************************)
(* QueryBuf (src/query.rs)                                                 *)
(***************************************************************************)
\* vec![0; n]
Zeros(n) == [i \in 1..n |-> 0]

\* QueryBuf::new_zeroed
new_zeroed(len) ==
    [buf |-> Zeros(STACK_BUF_LIMIT),
     heap_buf |-> IF len > STACK_BUF_LIMIT THEN Zeros(len) ELSE << >>,
     len |-> len]

\* u16::saturating_add
saturating_add(a, b) == IF a + b > U16_MAX THEN U16_MAX ELSE a + b

\* Vec::resize(new_len, 0)
resize(v, new_len) ==
    IF Len(v) < new_len THEN v \o Zeros(new_len - Len(v)) ELSE SubSeq(v, 1, new_len)

\* A variant of extend_from_slice that does not carry the inline bytes over
\* when the buffer moves to the heap.
extend_from_slice_drops_inline(q, sl) ==
    LET new_len == saturating_add(q.len, Len(sl) % (U16_MAX + 1))
        was_heap == q.len > STACK_BUF_LIMIT
        is_heap == new_len > STACK_BUF_LIMIT
        heap0 == IF was_heap # is_heap THEN Zeros(new_len) ELSE q.heap_buf
        heap1 == IF is_heap THEN resize(heap0, new_len) ELSE heap0
        target_len == new_len - q.len
    IN IF target_len # Len(sl)
       THEN [panicked |-> TRUE, q |-> [q EXCEPT !.heap_buf = heap1]]
       ELSE IF is_heap
       THEN [panicked |-> FALSE,
             q |-> [buf |-> q.buf,
                    heap_buf |-> SubSeq(heap1, 1, q.len) \o sl,
                    len |-> new_len]]
       ELSE [panicked |-> FALSE,
             q |-> [buf |-> SubSeq(q.buf, 1, q.len) \o sl
                              \o SubSeq(q.buf, new_len + 1, STACK_BUF_LIMIT),
                    heap_buf |-> heap1,
                    len |-> new_len]]

\* QueryBuf::extend_from_slice.  `sl.len() as u16` keeps the low 16 bits of
\* the slice's length; copy_from_slice panics unless the target and the
\* slice have the same length.
extend_from_slice(q, sl) ==
    LET new_len == saturating_add(q.len, Len(sl) % (U16_MAX + 1))
        was_heap == q.len > STACK_BUF_LIMIT
        is_heap == new_len > STACK_BUF_LIMIT
        \* vec![0; new_len] with the inline bytes copied to its front
        heap0 == IF was_heap # is_heap
                 THEN SubSeq(q.buf, 1, q.len) \o Zeros(new_len - q.len)
                 ELSE q.heap_buf
        heap1 == IF is_heap THEN resize(heap0, new_len) ELSE heap0
        \* heap_buf[len..] or buf[len..new_len]
        target_len == new_len - q.len
    IN IF target_len # Len(sl)
       THEN [panicked |-> TRUE, q |-> [q EXCEPT !.heap_buf = heap1]]
       ELSE IF is_heap
       THEN [panicked |-> FALSE,
             q |-> [buf |-> q.buf,
                    heap_buf |-> SubSeq(heap1, 1, q.len) \o sl,
                    len |-> new_len]]
       ELSE [panicked |-> FALSE,
             q |-> [buf |-> SubSeq(q.buf, 1, q.len) \o sl
                              \o SubSeq(q.buf, new_len + 1, STACK_BUF_LIMIT),
                    heap_buf |-> heap1,
                    len |-> new_len]]

\* QueryBuf::into_vec
into_vec(q) ==
    IF q.len > STACK_BUF_LIMIT THEN q.heap_buf ELSE SubSeq(q.buf, 1, q.len)

\* <QueryBuf as Deref>::deref
deref(q) ==
    IF q.len > STACK_BUF_LIMIT THEN q.heap_buf ELSE SubSeq(q.buf, 1, q.len)

\* #[derive(PartialEq, Eq)] on QueryBuf: a == b compares the three fields.
derived_eq(a, b) == a.buf = b.buf /\ a.heap_buf = b.heap_buf /\ a.len = b.len

(***************************************************************************)
(* handle_response (src/query.rs)                                          *)
(***************************************************************************)
\* A variant of read_answers that does not collect the signer names.
RECURSIVE read_answers_drops_signers(_, _)
read_answers_drops_signers(n, acc) ==
    IF n = 0 THEN acc
    ELSE LET p == parse_wire_packet_rr(acc.inp) IN
         IF ~p.ok THEN [acc EXCEPT !.err = TRUE]
         ELSE read_answers_drops_signers(n - 1,
                [err |-> FALSE,
                 inp |-> p.inp,
                 proof |-> write_rr(p.rr, p.ttl, acc.proof),
                 min_ttl |-> Min(acc.min_ttl, p.ttl),
                 names |-> acc.names])

\* The answer loop: every record is written to the proof, its TTL folded
\* into min_ttl, and an RRSIG's signer name collected.  A parse failure
\* leaves what was written before it in place.
RECURSIVE read_answers(_, _)
read_answers(n, acc) ==
    IF n = 0 THEN acc
    ELSE LET p == parse_wire_packet_rr(acc.inp) IN
         IF ~p.ok THEN [acc EXCEPT !.err = TRUE]
         ELSE read_answers(n - 1,
                [err |-> FALSE,
                 inp |-> p.inp,
                 proof |-> write_rr(p.rr, p.ttl, acc.proof),
                 min_ttl |-> Min(acc.min_ttl, p.ttl),
                 names |-> IF p.rr.ty = TYPE_RRSig
                           THEN Append(acc.names, p.rr.key_name) ELSE acc.names])

\* A variant of authority_included that keeps every RRSIG.
authority_included_keeps_all_rrsigs(rr) ==
    rr.ty = TYPE_RRSig \/ rr.ty = TYPE_NSec \/ rr.ty = TYPE_NSec3

\* Whether an authority record is kept: NSEC, NSEC3 and RRSIGs over them.
authority_included(rr) ==
    IF rr.ty = TYPE_RRSig THEN ~(rr.covered # TYPE_NSec /\ rr.covered # TYPE_NSec3)
    ELSE rr.ty = TYPE_NSec \/ rr.ty = TYPE_NSec3

\* A variant of read_authorities that fails on a record it does not keep.
RECURSIVE read_authorities_rejects_skipped(_, _)
read_authorities_rejects_skipped(n, acc) ==
    IF n = 0 THEN acc
    ELSE LET p == parse_wire_packet_rr(acc.inp) IN
         IF ~p.ok THEN [acc EXCEPT !.err = TRUE]
         ELSE IF ~authority_included(p.rr) THEN [acc EXCEPT !.err = TRUE]
         ELSE read_authorities_rejects_skipped(n - 1,
                [err |-> FALSE,
                 inp |-> p.inp,
                 proof |-> write_rr(p.rr, p.ttl, acc.proof),
                 min_ttl |-> Min(acc.min_ttl, p.ttl),
                 names |-> IF p.rr.ty = TYPE_RRSig
                           THEN Append(acc.names, p.rr.key_name) ELSE acc.names])

\* The authority loop: as the answer loop, for the records that are kept.
RECURSIVE read_authorities(_, _)
read_authorities(n, acc) ==
    IF n = 0 THEN acc
    ELSE LET p == parse_wire_packet_rr(acc.inp) IN
         IF ~p.ok THEN [acc EXCEPT !.err = TRUE]
         ELSE IF ~authority_included(p.rr)
              THEN read_authorities(n - 1, [acc EXCEPT !.inp = p.inp])
         ELSE read_authorities(n - 1,
                [err |-> FALSE,
                 inp |-> p.inp,
                 proof |-> write_rr(p.rr, p.ttl, acc.proof),
                 min_ttl |-> Min(acc.min_ttl, p.ttl),
                 names |-> IF p.rr.ty = TYPE_RRSig
                           THEN Append(acc.names, p.rr.key_name) ELSE acc.names])

HandleErr(e, proof, names) ==
    [res |-> e, min_ttl |-> U32(0, 0), proof |-> proof, names |-> names]

\* A variant of check_flags without the AD check.
check_flags_skips_ad(flags) ==
    IF BitAnd(flags, 32768) = 0 THEN "InvalidResponse"
    ELSE IF BitAnd(flags, 15) = 2 \/ BitAnd(flags, 15) = 1 THEN "ServerFailure"
    ELSE IF BitAnd(flags, 15) = 3 THEN "MissingRecord"
    ELSE IF BitAnd(flags, 31247) # 0 THEN "InvalidResponse"
    ELSE "Ok"

\* A variant of check_flags that checks opcode and truncation before RCODE.
check_flags_validates_first(flags) ==
    IF BitAnd(flags, 32768) = 0 THEN "InvalidResponse"
    ELSE IF BitAnd(flags, 31232) # 0 THEN "InvalidResponse"
    ELSE IF BitAnd(flags, 15) = 2 \/ BitAnd(flags, 15) = 1 THEN "ServerFailure"
    ELSE IF BitAnd(flags, 15) = 3 THEN "MissingRecord"
    ELSE IF BitAnd(flags, 31247) # 0 THEN "InvalidResponse"
    ELSE IF BitAnd(flags, 32) = 0 THEN "Unauthenticated"
    ELSE "Ok"

\* The header checks on the flags word, in the order of the code.
check_flags(flags) ==
    IF BitAnd(flags, 32768) = 0 THEN "InvalidResponse"
    ELSE IF BitAnd(flags, 15) = 2 \/ BitAnd(flags, 15) = 1 THEN "ServerFailure"
    ELSE IF BitAnd(flags, 15) = 3 THEN "MissingRecord"
    ELSE IF BitAnd(flags, 31247) # 0 THEN "InvalidResponse"
    ELSE IF BitAnd(flags, 32) = 0 THEN "Unauthenticated"
    ELSE "Ok"

\* handle_response(resp, &mut proof, &mut rrsig_key_names): the result, and
\* the proof and the names as the call leaves them.
handle_response(resp, proof, rrsig_key_names) ==
    LET txid == read_u16(resp.hdr)
        flags == read_u16(txid.inp)
        questions == read_u16(flags.inp)
        answers == read_u16(questions.inp)
        authorities == read_u16(answers.inp)
        additional == read_u16(authorities.inp)
        Invalid == HandleErr("InvalidResponse", proof, rrsig_key_names)
    IN
    IF ~txid.ok THEN Invalid
    ELSE IF txid.val # TXID THEN Invalid
    ELSE IF ~flags.ok THEN Invalid
    ELSE IF check_flags(flags.val) # "Ok"
         THEN HandleErr(check_flags(flags.val), proof, rrsig_key_names)
    ELSE IF ~questions.ok THEN Invalid
    ELSE IF questions.val # 1 THEN Invalid
    ELSE IF ~answers.ok THEN Invalid
    ELSE IF answers.val = 0 THEN Invalid
    ELSE IF ~authorities.ok THEN Invalid
    ELSE IF ~additional.ok THEN Invalid
    ELSE IF resp.question = << >> \/ ~Head(resp.question).ok THEN Invalid
    ELSE LET an == read_answers(answers.val,
                     [err |-> FALSE, inp |-> resp.rrs, proof |-> proof,
                      min_ttl |-> U32_MAX, names |-> rrsig_key_names])
             ns == read_authorities(authorities.val, an)
         IN IF an.err THEN HandleErr("InvalidResponse", an.proof, an.names)
            ELSE IF ns.err THEN HandleErr("InvalidResponse", ns.proof, ns.names)
            ELSE [res |-> "Ok", min_ttl |-> ns.min_ttl, proof |-> ns.proof,
                  names |-> ns.names]

(***************************************************************************)
(* ProofBuilder (src/query.rs)                                             *)
(***************************************************************************)
VARIABLES
    proof,              \* ProofBuilder.proof: the records serialised so far
    min_ttl,            \* ProofBuilder.min_ttl
    dnskeys_requested,  \* ProofBuilder.dnskeys_requested (a Vec: a sequence)
    pending_queries,    \* ProofBuilder.pending_queries
    queries_made,       \* ProofBuilder.queries_made
    alive,              \* FALSE once finish_proof has consumed the builder
    ret,                \* what the last call returned to the caller
    resp,               \* the response the last process_response call was given
    sent,               \* every query handed to the caller so far, in order
    committed,          \* per proof entry: was it written by a call that returned Ok
    calls,              \* the number of process_response calls so far
    clone,              \* a clone of the builder (ProofBuilder is Clone), or NoClone
    codec,              \* a call of a wire-codec function: its input and its result
    qbuf,               \* a QueryBuf a caller builds, with what it has put into it
    handle,             \* the shared handle around the builder: mutex, queue, threads
    big                 \* a call of a big-integer function: its inputs and its result

\* The state outside the builder a driver works on.
aux == << clone, codec, qbuf, handle, big >>

\* The builder and what the model records of its calls.
builder == << proof, min_ttl, dnskeys_requested, pending_queries, queries_made,
              alive, ret, resp, sent, committed, calls >>

vars == << proof, min_ttl, dnskeys_requested, pending_queries, queries_made,
           alive, ret, resp, sent, committed, calls, aux >>

\* build_query: the query for (domain, ty): transaction id 0, flags RD|AD,
\* one question of class IN, one EDNS0 OPT record with the DO bit.
build_query(domain, ty) ==
    [txid |-> TXID, flags |-> 288, qd |-> 1, an |-> 0, ns |-> 0, ar |-> 1,
     qname |-> domain, qtype |-> ty, qclass |-> 1, opt_flags |-> 32768]

\* The builder as a value, for the operators below.
Builder(p, t, d, pq, qm) ==
    [proof |-> p, min_ttl |-> t, dnskeys_requested |-> d,
     pending_queries |-> pq, queries_made |-> qm]

self == Builder(proof, min_ttl, dnskeys_requested, pending_queries, queries_made)

\* A variant of awaiting_responses that forgets the step budget.
awaiting_responses_ignores_budget(b) ==
    b.pending_queries > 0

\* ProofBuilder::awaiting_responses
awaiting_responses(b) ==
    b.pending_queries > 0 /\ b.queries_made <= MAX_PROOF_STEPS

\* A variant of request_keys that never records the name it has requested.
RECURSIVE request_keys_forgets_name(_, _)
request_keys_forgets_name(key_names, acc) ==
    IF key_names = << >> THEN acc
    ELSE LET key_name == Head(key_names) IN
         IF key_name \in Range(acc.b.dnskeys_requested)
         THEN request_keys_forgets_name(Tail(key_names), acc)
         ELSE LET q1 == Append(acc.new_queries, build_query(key_name, TYPE_DnsKey))
                  b1 == [acc.b EXCEPT
                           !.pending_queries = @ + 1,
                           !.queries_made = @ + 1]
              IN IF key_name # "."
                 THEN request_keys_forgets_name(Tail(key_names),
                        [new_queries |-> Append(q1, build_query(key_name, TYPE_DS)),
                         b |-> [b1 EXCEPT !.pending_queries = @ + 1,
                                          !.queries_made = @ + 1]])
                 ELSE request_keys_forgets_name(Tail(key_names),
                        [new_queries |-> q1, b |-> b1])

\* A variant of request_keys that asks for the DS of the root as well.
RECURSIVE request_keys_asks_ds_of_root(_, _)
request_keys_asks_ds_of_root(key_names, acc) ==
    IF key_names = << >> THEN acc
    ELSE LET key_name == Head(key_names) IN
         IF key_name \in Range(acc.b.dnskeys_requested)
         THEN request_keys_asks_ds_of_root(Tail(key_names), acc)
         ELSE LET q1 == Append(acc.new_queries, build_query(key_name, TYPE_DnsKey))
                  b1 == [acc.b EXCEPT
                           !.pending_queries = @ + 1,
                           !.queries_made = @ + 1,
                           !.dnskeys_requested = Append(@, key_name)]
              IN request_keys_asks_ds_of_root(Tail(key_names),
                        [new_queries |-> Append(q1, build_query(key_name, TYPE_DS)),
                         b |-> [b1 EXCEPT !.pending_queries = @ + 1,
                                          !.queries_made = @ + 1]])

\* A variant of request_keys that does not count the DS query in
\* queries_made.
RECURSIVE request_keys_leaves_total(_, _)
request_keys_leaves_total(key_names, acc) ==
    IF key_names = << >> THEN acc
    ELSE LET key_name == Head(key_names) IN
         IF key_name \in Range(acc.b.dnskeys_requested)
         THEN request_keys_leaves_total(Tail(key_names), acc)
         ELSE LET q1 == Append(acc.new_queries, build_query(key_name, TYPE_DnsKey))
                  b1 == [acc.b EXCEPT
                           !.pending_queries = @ + 1,
                           !.queries_made = @ + 1,
                           !.dnskeys_requested = Append(@, key_name)]
              IN IF key_name # "."
                 THEN request_keys_leaves_total(Tail(key_names),
                        [new_queries |-> Append(q1, build_query(key_name, TYPE_DS)),
                         b |-> [b1 EXCEPT !.pending_queries = @ + 1]])
                 ELSE request_keys_leaves_total(Tail(key_names), [new_queries |-> q1, b |-> b1])

\* The loop of process_response over the sorted, deduplicated signer names:
\* a name not yet requested gets a DNSKEY query and, unless it is the root,
\* a DS query; both counters are incremented for each query.
RECURSIVE request_keys(_, _)
request_keys(key_names, acc) ==
    IF key_names = << >> THEN acc
    ELSE LET key_name == Head(key_names) IN
         IF key_name \in Range(acc.b.dnskeys_requested)
         THEN request_keys(Tail(key_names), acc)
         ELSE LET q1 == Append(acc.new_queries, build_query(key_name, TYPE_DnsKey))
                  b1 == [acc.b EXCEPT
                           !.pending_queries = @ + 1,
                           !.queries_made = @ + 1,
                           !.dnskeys_requested = Append(@, key_name)]
              IN IF key_name # "."
                 THEN request_keys(Tail(key_names),
                        [new_queries |-> Append(q1, build_query(key_name, TYPE_DS)),
                         b |-> [b1 EXCEPT !.pending_queries = @ + 1,
                                          !.queries_made = @ + 1]])
                 ELSE request_keys(Tail(key_names), [new_queries |-> q1, b |-> b1])

\* A variant of map_error that promotes every MissingRecord.
map_error_always_promotes(err, p) ==
    IF err = "MissingRecord" THEN "NoSuchName" ELSE err

\* The error arm of process_response: MissingRecord becomes NoSuchName while
\* the proof is empty.
map_error(err, p) ==
    IF p = << >> /\ err = "MissingRecord" THEN "NoSuchName" ELSE err

\* A variant of returned_queries that hands out the queries whatever the total.
returned_queries_uncapped(new_queries, made) ==
    new_queries

\* The end of process_response: the new queries are returned only while
\* queries_made is within MAX_PROOF_STEPS.
returned_queries(new_queries, made) ==
    IF made <= MAX_PROOF_STEPS THEN new_queries ELSE << >>

\* A variant of process_response that reads the response before it looks at
\* the pending counter.
process_response_parses_first(b, r) ==
    LET h == handle_response(r, b.proof, << >>) IN
    IF h.res # "Ok"
    THEN [b |-> [b EXCEPT !.proof = h.proof],
          status |-> map_error(h.res, h.proof),
          queries |-> << >>]
    ELSE IF b.pending_queries = 0
    THEN [b |-> b, status |-> "NoResponseExpected", queries |-> << >>]
    ELSE LET b0 == [b EXCEPT !.proof = h.proof,
                             !.min_ttl = Min(@, h.min_ttl),
                             !.pending_queries = @ - 1]
             out == request_keys(sort_dedup(h.names),
                                 [new_queries |-> << >>, b |-> b0])
         IN [b |-> out.b, status |-> "Ok",
             queries |-> returned_queries(out.new_queries, out.b.queries_made)]

\* A variant of process_response that stores the response's minimum TTL
\* instead of folding it into min_ttl.
process_response_overwrites_ttl(b, r) ==
    IF b.pending_queries = 0
    THEN [b |-> b, status |-> "NoResponseExpected", queries |-> << >>]
    ELSE LET h == handle_response(r, b.proof, << >>) IN
         IF h.res # "Ok"
         THEN [b |-> [b EXCEPT !.proof = h.proof],
               status |-> map_error(h.res, h.proof),
               queries |-> << >>]
         ELSE LET b0 == [b EXCEPT !.proof = h.proof,
                                  !.min_ttl = h.min_ttl,
                                  !.pending_queries = @ - 1]
                  out == request_keys(sort_dedup(h.names),
                                      [new_queries |-> << >>, b |-> b0])
              IN [b |-> out.b, status |-> "Ok",
                  queries |-> returned_queries(out.new_queries, out.b.queries_made)]

\* A variant of process_response that does not count the response off the
\* pending queries.
process_response_keeps_pending(b, r) ==
    IF b.pending_queries = 0
    THEN [b |-> b, status |-> "NoResponseExpected", queries |-> << >>]
    ELSE LET h == handle_response(r, b.proof, << >>) IN
         IF h.res # "Ok"
         THEN [b |-> [b EXCEPT !.proof = h.proof],
               status |-> map_error(h.res, h.proof),
               queries |-> << >>]
         ELSE LET b0 == [b EXCEPT !.proof = h.proof,
                                  !.min_ttl = Min(@, h.min_ttl)]
                  out == request_keys(sort_dedup(h.names),
                                      [new_queries |-> << >>, b |-> b0])
              IN [b |-> out.b, status |-> "Ok",
                  queries |-> returned_queries(out.new_queries, out.b.queries_made)]

\* ProofBuilder::process_response: the builder as the call leaves it, the
\* status returned and the queries returned.
process_response(b, r) ==
    IF b.pending_queries = 0
    THEN [b |-> b, status |-> "NoResponseExpected", queries |-> << >>]
    ELSE LET h == handle_response(r, b.proof, << >>) IN
         IF h.res # "Ok"
         THEN [b |-> [b EXCEPT !.proof = h.proof],
               status |-> map_error(h.res, h.proof),
               queries |-> << >>]
         ELSE LET b0 == [b EXCEPT !.proof = h.proof,
                                  !.min_ttl = Min(@, h.min_ttl),
                                  !.pending_queries = @ - 1]
                  out == request_keys(sort_dedup(h.names),
                                      [new_queries |-> << >>, b |-> b0])
              IN [b |-> out.b, status |-> "Ok",
                  queries |-> returned_queries(out.new_queries, out.b.queries_made)]

\* A variant of finish_proof that does not look at the pending queries.
finish_proof_ignores_pending(b) ==
    IF b.queries_made > MAX_PROOF_STEPS
    THEN [ok |-> FALSE, proof |-> << >>, ttl |-> U32(0, 0)]
    ELSE [ok |-> TRUE, proof |-> b.proof, ttl |-> b.min_ttl]

\* ProofBuilder::finish_proof
finish_proof(b) ==
    IF b.pending_queries > 0 \/ b.queries_made > MAX_PROOF_STEPS
    THEN [ok |-> FALSE, proof |-> << >>, ttl |-> U32(0, 0)]
    ELSE [ok |-> TRUE, proof |-> b.proof, ttl |-> b.min_ttl]

(***************************************************************************)
(* The responses fed to the builder                                        *)
(***************************************************************************)
U16(v) == << v \div 256, v % 256 >>

\* A 12-byte header.
Hdr(txid, flags, qd, an, ns, ar) ==
    U16(txid) \o U16(flags) \o U16(qd) \o U16(an) \o U16(ns) \o U16(ar)

Question == << [ok |-> TRUE] >>

Resp(hdr, question, rrs) == [hdr |-> hdr, question |-> question, rrs |-> rrs]

\* Records of the given type; key_name is "" where the type has none.
Rec(name, ty, ttl) == WireRR(name, ty, 1, U32(0, ttl), TRUE, 0, "")
Sig(name, covered, key_name, ttl) ==
    WireRR(name, TYPE_RRSig, 1, U32(0, ttl), TRUE, covered, key_name)

\* An SOA record (type 6), a type parse_wire_packet_rr does not know.
Soa(name, ttl) == WireRR(name, 6, 1, U32(0, ttl), TRUE, 0, "")

\* One RRSIG over an A record for each of the names of SortedNames[lo..hi].
SigsBy(lo, hi) == [i \in 1..(hi - lo + 1) |-> Sig("a.", TYPE_A, SortedNames[lo + i - 1], 300)]

\* Responses whose header alone decides the outcome.  0x8020 is QR|AD.
HeaderResponses ==
    { Resp(<< >>, << >>, << >>),                                  \* empty
      Resp(<< 0 >>, << >>, << >>),                                \* one byte
      Resp(U16(0), << >>, << >>),                                 \* ends after the txid
      Resp(Hdr(7, 32800, 1, 1, 0, 0), Question, << Rec("a.", TYPE_A, 300) >>), \* txid 7
      Resp(Hdr(0, 32, 1, 1, 0, 0), Question, << Rec("a.", TYPE_A, 300) >>),    \* QR clear
      Resp(Hdr(0, 32801, 1, 1, 0, 0), Question, << >>),           \* RCODE 1
      Resp(Hdr(0, 32802, 1, 0, 0, 0), Question, << >>),           \* RCODE 2
      Resp(Hdr(0, 32803, 1, 0, 1, 0), Question, << >>),           \* RCODE 3
      Resp(Hdr(0, 32771, 1, 0, 0, 0), Question, << >>),           \* RCODE 3, AD clear
      Resp(Hdr(0, 32804, 1, 1, 0, 0), Question, << >>),           \* RCODE 4
      Resp(Hdr(0, 34848, 1, 1, 0, 0), Question, << Rec("a.", TYPE_A, 300) >>), \* opcode 1
      Resp(Hdr(0, 34850, 1, 1, 0, 0), Question, << >>),           \* opcode 1, RCODE 2
      Resp(Hdr(0, 34851, 1, 1, 0, 0), Question, << >>),           \* opcode 1, RCODE 3
      Resp(Hdr(0, 33312, 1, 1, 0, 0), Question, << Rec("a.", TYPE_A, 300) >>), \* TC
      Resp(Hdr(0, 33313, 1, 1, 0, 0), Question, << >>),           \* TC, RCODE 1
      Resp(Hdr(0, 33315, 1, 1, 0, 0), Question, << >>),           \* TC, RCODE 3
      Resp(Hdr(7, 34850, 1, 1, 0, 0), Question, << >>),           \* txid 7, opcode 1, RCODE 2
      Resp(Hdr(0, 546, 1, 1, 0, 0), Question, << >>),             \* QR clear, TC, RCODE 2
      Resp(Hdr(0, 32768, 1, 1, 0, 0), Question, << Rec("a.", TYPE_A, 300) >>), \* AD clear
      Resp(Hdr(0, 32768, 0, 0, 7, 9), << >>, << Soa("a.", 300) >>),  \* AD clear
      Resp(U16(0) \o U16(33920), << >>, << >>),                   \* QR|AA|RA, AD clear, 4 bytes
      Resp(U16(0) \o U16(32800), << >>, << >>),                   \* ends after the flags
      Resp(Hdr(0, 32800, 0, 1, 0, 0), << >>, << Rec("a.", TYPE_A, 300) >>),    \* no question
      Resp(Hdr(0, 32800, 2, 1, 0, 0), Question \o Question, << Rec("a.", TYPE_A, 300) >>),
      Resp(Hdr(0, 32800, 1, 0, 1, 0), Question, << Rec("a.", TYPE_NSec, 300) >>), \* no answer
      Resp(Hdr(0, 32800, 1, 1, 0, 0), << [ok |-> FALSE] >>, << Rec("a.", TYPE_A, 300) >>) }

\* Responses that pass the header checks and fail in a record.
BodyErrorResponses ==
    { \* the first record fails: wrong class, unknown type, bad RDATA
      Resp(Hdr(0, 32800, 1, 1, 0, 0), Question, << WireRR("a.", TYPE_A, 3, U32(0, 300), TRUE, 0, "") >>),
      Resp(Hdr(0, 32800, 1, 1, 0, 0), Question, << Soa("a.", 300) >>),
      Resp(Hdr(0, 32800, 1, 1, 0, 0), Question, << WireRR("a.", TYPE_A, 1, U32(0, 300), FALSE, 0, "") >>),
      \* two answers announced, one present
      Resp(Hdr(0, 32800, 1, 2, 0, 0), Question, << Rec("a.", TYPE_A, 10) >>),
      \* a signed answer, then an SOA record in the authority section
      Resp(Hdr(0, 32800, 1, 2, 1, 0), Question,
           << Rec("a.", TYPE_A, 20), Sig("a.", TYPE_A, "d.", 20), Soa("a.", 300) >>),
      \* an NSEC record kept, then an authority record of class 3
      Resp(Hdr(0, 32800, 1, 1, 2, 0), Question,
           << Rec("a.", TYPE_A, 300), Rec("a.", TYPE_NSec, 40),
              WireRR("a.", TYPE_NS, 3, U32(0, 300), TRUE, 0, "") >>) }

\* One unsigned answer of TTL 65536.
PlainAnswer ==
    Resp(Hdr(0, 32800, 1, 1, 0, 0), Question,
         << WireRR("a.", TYPE_A, 1, U32(1, 0), TRUE, 0, "") >>)

\* An authority section with skipped and kept records, then an additional
\* section (an RRSIG over NSEC3 that would be kept in the authority section).
WithAuthority ==
    Resp(Hdr(0, 32800, 1, 1, 5, 1), Question,
         << Rec("a.", TYPE_A, 300),
            Rec("a.", TYPE_NS, 10), Sig("a.", TYPE_NS, "b.", 5),
            Rec("a.", TYPE_NSec, 100), Sig("a.", TYPE_NSec, "c.", 100),
            Rec("a.", TYPE_NSec3, 90),
            Sig("a.", TYPE_NSec3, "e.", 2) >>)

\* Responses that are processed successfully.  33184 is QR|AA|RD|RA|AD.
GoodResponses ==
    { PlainAnswer,
      Resp(Hdr(0, 33184, 1, 2, 0, 0), Question,
           << Rec("a.", TYPE_Txt, 300), Sig("a.", TYPE_Txt, "a.", 300) >>),
      Resp(Hdr(0, 32800, 1, 3, 0, 0), Question,
           << Rec("a.", TYPE_DnsKey, 60), Sig("a.", TYPE_DnsKey, "a.", 60),
              Sig("a.", TYPE_DnsKey, "a.", 50) >>),
      Resp(Hdr(0, 32800, 1, 2, 0, 0), Question,
           << Rec("a.", TYPE_DS, 60), Sig("a.", TYPE_DS, ".", 60) >>),
      \* a record of unknown type in the additional section
      Resp(Hdr(0, 32800, 1, 2, 0, 1), Question,
           << Rec(".", TYPE_DnsKey, 30), Sig(".", TYPE_DnsKey, ".", 30),
              Soa(".", 1) >>),
      WithAuthority,
      \* many signers in one response
      Resp(Hdr(0, 32800, 1, 10, 0, 0), Question, SigsBy(2, 11)),
      Resp(Hdr(0, 32800, 1, 10, 0, 0), Question, SigsBy(1, 10)),
      Resp(Hdr(0, 32800, 1, 9, 0, 0), Question, SigsBy(2, 10)) }

Responses == HeaderResponses \cup BodyErrorResponses \cup GoodResponses

NoResponse == Resp(<< >>, << >>, << >>)

\* No clone of the builder has been taken.
NoClone == [taken |-> FALSE]

\* No codec function has been called.
NoCodec == [op |-> "none"]

\* No QueryBuf is being built.
NoBuf == [op |-> "none"]

\* No shared handle has been made.
NoHandle == [op |-> "none"]

\* No big-integer function has been called.
NoBig == [op |-> "none"]

AuxInit ==
    /\ clone = NoClone /\ codec = NoCodec /\ qbuf = NoBuf /\ handle = NoHandle
    /\ big = NoBig

(***************************************************************************)
(* The state machine                                                       *)
(***************************************************************************)
Ret(op, status, queries, p, ttl) ==
    [op |-> op, status |-> status, queries |-> queries, proof |-> p, ttl |-> ttl]

\* ProofBuilder::new(name, ty)
BuilderInit ==
    \E name \in {"a."}, ty \in {TYPE_A, TYPE_Txt, TYPE_DnsKey} :
        /\ proof = << >>
        /\ min_ttl = U32_MAX
        /\ dnskeys_requested = << >>
        /\ pending_queries = 1
        /\ queries_made = 1
        /\ alive = TRUE
        /\ ret = Ret("new", "Ok", << build_query(name, ty) >>, << >>, U32(0, 0))
        /\ resp = NoResponse
        /\ sent = << build_query(name, ty) >>
        /\ committed = << >>
        /\ calls = 0

Init == BuilderInit /\ AuxInit

\* builder.process_response(&r)
ProcessResponse(r) ==
    /\ alive
    /\ calls < MaxCalls
    /\ \E out \in {process_response(self, r)} :    \* evaluated once
        /\ proof' = out.b.proof
        /\ min_ttl' = out.b.min_ttl
        /\ dnskeys_requested' = out.b.dnskeys_requested
        /\ pending_queries' = out.b.pending_queries
        /\ queries_made' = out.b.queries_made
        /\ ret' = Ret("process_response", out.status, out.queries, << >>, U32(0, 0))
        /\ sent' = sent \o out.queries
        /\ committed' = committed \o
               [i \in 1..(Len(out.b.proof) - Len(proof)) |-> out.status = "Ok"]
    /\ resp' = r
    /\ calls' = calls + 1
    /\ UNCHANGED << alive, aux >>

\* builder.finish_proof(): consumes the builder
FinishProof ==
    /\ alive
    /\ LET f == finish_proof(self) IN
        ret' = Ret("finish_proof", IF f.ok THEN "Ok" ELSE "Err", << >>, f.proof, f.ttl)
    /\ alive' = FALSE
    /\ UNCHANGED << proof, min_ttl, dnskeys_requested, pending_queries,
                    queries_made, resp, sent, committed, calls, aux >>

Next ==
    \/ \E r \in Responses : ProcessResponse(r)
    \/ FinishProof

Spec == Init /\ [][Next]_vars

(***************************************************************************)
(* Two orders of the same two responses: after a prefix of calls the       *)
(* builder is cloned; the builder is given r1 then r2, the clone r2 then   *)
(* r1.                                                                     *)
(***************************************************************************)
\* The responses that get past the header checks: those that are accepted
\* while a response is pending, and those that fail in a record.  A response
\* that fails in its header is never accepted and leaves the builder as it
\* was.
BodyResponses == GoodResponses \cup BodyErrorResponses

\* builder.process_response(&r) before the clone is taken
PoolPrefix(r) ==
    /\ ~clone.taken
    /\ calls < MaxPrefix
    /\ ProcessResponse(r)

\* let mut c = builder.clone();
\* builder.process_response(&r1); builder.process_response(&r2);
\* c.process_response(&r2); c.process_response(&r1);
ProcessBothOrders(r1, r2) ==
    /\ alive
    /\ ~clone.taken
    /\ \E a1 \in {process_response(self, r1)}, a2 \in {process_response(self, r2)} :
       \E a12 \in {process_response(a1.b, r2)}, a21 \in {process_response(a2.b, r1)} :
        /\ proof' = a12.b.proof
        /\ min_ttl' = a12.b.min_ttl
        /\ dnskeys_requested' = a12.b.dnskeys_requested
        /\ pending_queries' = a12.b.pending_queries
        /\ queries_made' = a12.b.queries_made
        /\ ret' = Ret("process_response", a12.status, a12.queries, << >>, U32(0, 0))
        /\ sent' = sent \o a1.queries \o a12.queries
        /\ committed' = committed
              \o [i \in 1..(Len(a1.b.proof) - Len(proof)) |-> a1.status = "Ok"]
              \o [i \in 1..(Len(a12.b.proof) - Len(a1.b.proof)) |-> a12.status = "Ok"]
        /\ clone' = [taken |-> TRUE, b |-> a21.b, r1 |-> r1, r2 |-> r2,
                     accepted |-> /\ a1.status = "Ok" /\ a12.status = "Ok"
                                  /\ a2.status = "Ok" /\ a21.status = "Ok"]
    /\ resp' = r2
    /\ calls' = calls + 2
    /\ UNCHANGED << alive, codec, qbuf, handle, big >>

NextPool ==
    \/ \E r \in BodyResponses : PoolPrefix(r)
    \/ \E r1, r2 \in BodyResponses : ProcessBothOrders(r1, r2)

SpecPool == Init /\ [][NextPool]_vars

(***************************************************************************)
(* The driver loop (build_proof_impl): while the builder awaits responses, *)
(* one response is read and given to process_response and the queries it   *)
(* returns are sent; an error ends the loop; then finish_proof is called.  *)
(* The resolver is free in what it answers.                                *)
(***************************************************************************)
\* The names the builder b has not requested yet, ascending.
Unrequested(b) == SelectSeq(SortedNames, LAMBDA n : n \notin Range(b.dnskeys_requested))

\* What the resolver may answer to a builder in the state b: an answer
\* signed by the first ten names at once (19 queries, which fill the budget
\* exactly, and none when given again); an answer signed by ten names that
\* are not the root (20 queries); an answer signed by one name not requested
\* yet; an answer whose second record does not parse; and a header that
\* reports a server failure.
DriverResponses(b) ==
    { Resp(Hdr(0, 32800, 1, 10, 0, 0), Question, SigsBy(1, 10)),
      Resp(Hdr(0, 32800, 1, 10, 0, 0), Question, SigsBy(2, 11)),
      Resp(Hdr(0, 32800, 1, 2, 0, 0), Question, << Rec("a.", TYPE_A, 10) >>),
      Resp(Hdr(0, 32802, 1, 1, 0, 0), Question, << >>) }
       \cup { Resp(Hdr(0, 32800, 1, 2, 0, 0), Question,
                   << Rec("a.", TYPE_A, 300), Sig("a.", TYPE_A, n, 300) >>) :
                 n \in IF Unrequested(b) = << >> THEN {} ELSE {Head(Unrequested(b))} }

\* One turn of the loop: builder.process_response(&response)?, then every
\* query returned is sent.  An error leaves the loop and drops the builder.
DriverRound(r) ==
    /\ alive
    /\ awaiting_responses(self)
    /\ \E out \in {process_response(self, r)} :
        /\ proof' = out.b.proof
        /\ min_ttl' = out.b.min_ttl
        /\ dnskeys_requested' = out.b.dnskeys_requested
        /\ pending_queries' = out.b.pending_queries
        /\ queries_made' = out.b.queries_made
        /\ ret' = Ret("process_response", out.status, out.queries, << >>, U32(0, 0))
        /\ sent' = sent \o out.queries
        /\ committed' = committed \o
               [i \in 1..(Len(out.b.proof) - Len(proof)) |-> out.status = "Ok"]
        /\ alive' = (out.status = "Ok")
    /\ resp' = r
    /\ calls' = calls + 1
    /\ UNCHANGED aux

\* read_response or send_query fails: the loop is left with the I/O error.
DriverIoError ==
    /\ alive
    /\ awaiting_responses(self)
    /\ alive' = FALSE
    /\ ret' = Ret("read_response", "Err", << >>, << >>, U32(0, 0))
    /\ UNCHANGED << proof, min_ttl, dnskeys_requested, pending_queries,
                    queries_made, resp, sent, committed, calls, aux >>

\* The loop is over: builder.finish_proof()
DriverFinish ==
    /\ alive
    /\ ~awaiting_responses(self)
    /\ LET f == finish_proof(self) IN
        ret' = Ret("finish_proof", IF f.ok THEN "Ok" ELSE "Err", << >>, f.proof, f.ttl)
    /\ alive' = FALSE
    /\ UNCHANGED << proof, min_ttl, dnskeys_requested, pending_queries,
                    queries_made, resp, sent, committed, calls, aux >>

NextDriver ==
    \/ \E r \in DriverResponses(self) : DriverRound(r)
    \/ DriverIoError
    \/ DriverFinish

\* The driver is a sequential program: it runs until it returns.
SpecDriver == Init /\ [][NextDriver]_vars /\ WF_vars(NextDriver)

(***************************************************************************)
(* The wire codec on untrusted bytes                                       *)
(***************************************************************************)
\* n bytes of value 255.
Bytes(n) == [i \in 1..n |-> 255]

\* The window numbers and block lengths tried: the first and the last
\* window, the last window a full block fits the table from (248), and the
\* block lengths around a window's 32 bytes and the largest a byte holds.
Windows == {0, 1, 2, 248, 249, 255}
BlockLens == {0, 1, 32, 33, 255}

\* One (window, length) header followed by n bytes, for n around the
\* block length and around window * 32 + length.
TailLens(w, l) ==
    {0, l, l + 2} \cup { k \in { w * 32 + l - 1, w * 32 + l, w * 32 + l + 3 } : k >= 0 }

BitmapInputs ==
    { << >>, << 0 >>, << 255 >>,
      << 0, 2, 1, 2, 0, 3, 4, 5, 6 >>,          \* window 0 twice
      << 0, 1, 9, 1, 1, 7 >>,                   \* windows 0 and 1
      << 1, 1, 7 >> \o Bytes(32) }
    \cup UNION { { << w, l >> \o Bytes(n) : n \in TailLens(w, l) } :
                   w \in Windows, l \in BlockLens }

\* Only the codec is at work: the builder stays as new() made it.
InitCodec ==
    /\ BuilderInit
    /\ clone = NoClone
    /\ qbuf = NoBuf
    /\ handle = NoHandle
    /\ big = NoBig
    /\ \E i \in BitmapInputs :
          codec = [op |-> "read_nsec_types_bitmap", inp |-> i, status |-> "Called"]

\* read_nsec_types_bitmap(&mut inp)
ReadNsecTypesBitmap ==
    /\ codec.op = "read_nsec_types_bitmap"
    /\ codec.status = "Called"
    /\ \E out \in {read_nsec_types_bitmap(codec.inp, << >>)} :
          codec' = [op |-> codec.op, inp |-> codec.inp, status |-> out.status,
                    res |-> out.res, left |-> Len(out.inp)]
    /\ UNCHANGED << builder, clone, qbuf, handle, big >>

NextCodec == ReadNsecTypesBitmap

SpecCodec == InitCodec /\ [][NextCodec]_vars

(***************************************************************************)
(* A type table written and read back                                      *)
(***************************************************************************)
\* The windows of a table: 8192 bytes in chunks of 32.
LastWindow == (NSEC_TABLE_LEN \div 32) - 1

\* The indices of the table that hold a non-zero byte: none; the first, a
\* middle and the last byte of window 0; all of window 0; the first byte of
\* window 1; windows 0 and 1; two full windows 1 and 2; a window in the
\* middle; the last byte of the table; the first and the last window.
TableIndices ==
    { {}, {0}, {5}, {31}, {0, 31}, 0..31, {1, 2, 3},
      {32}, {0, 32}, {40, 63}, 32..95, {0, 33, 64},
      {4100}, {8191}, {8160}, {0, 8191}, {7, 35, 8000} }

\* The tables written: each set of indices holding the same byte, or each
\* index a byte of its own.
Tables ==
    { [i \in s |-> v] : s \in TableIndices, v \in {1, 128, 255} }
       \cup { [i \in s |-> 1 + (i % 255)] : s \in TableIndices }

InitTable ==
    /\ BuilderInit
    /\ clone = NoClone
    /\ qbuf = NoBuf
    /\ handle = NoHandle
    /\ big = NoBig
    /\ \E t \in Tables :
          codec = [op |-> "write_nsec_types_bitmap", types |-> t, status |-> "Called"]

\* write_nsec_types_bitmap(&mut out, &types) into an empty Vec, and
\* nsec_types_bitmap_len(&types)
WriteNsecTypesBitmap ==
    /\ codec.op = "write_nsec_types_bitmap"
    /\ codec.status = "Called"
    /\ \E out \in {write_nsec_types_bitmap(codec.types, 0, LastWindow)} :
          codec' = [op |-> codec.op, types |-> codec.types, status |-> "Written",
                    out |-> out,
                    total_len |-> nsec_types_bitmap_len(codec.types, 0, LastWindow)]
    /\ UNCHANGED << builder, clone, qbuf, handle, big >>

\* read_nsec_types_bitmap(&mut &out[..]) on the bytes just written
ReadWrittenBitmap ==
    /\ codec.op = "write_nsec_types_bitmap"
    /\ codec.status = "Written"
    /\ \E r \in {read_nsec_types_bitmap(codec.out, << >>)} :
          codec' = [op |-> "read_nsec_types_bitmap", types |-> codec.types,
                    out |-> codec.out, total_len |-> codec.total_len,
                    status |-> r.status, res |-> r.res, left |-> Len(r.inp)]
    /\ UNCHANGED << builder, clone, qbuf, handle, big >>

NextTable == WriteNsecTypesBitmap \/ ReadWrittenBitmap

SpecTable == InitTable /\ [][NextTable]_vars

(***************************************************************************)
(* A name read from a packet                                               *)
(***************************************************************************)
\* n compression pointers, the one at offset 2 * i pointing at offset
\* 2 * i + 2, followed by the bytes rest.
Chain(n, rest) ==
    [k \in 1..(2 * n) |-> IF k % 2 = 1 THEN 192 + ((k + 1) \div 256) ELSE k % 256] \o rest

\* n bytes 'a' with a dot at every 32nd place.
Dotted(n) == [k \in 1..n |-> IF k % 32 = 0 THEN Dot ELSE 97]

\* The packets read: plain names; truncated, ill-formed and over-long
\* labels; pointers forwards, out of the packet and cut short; a pointer at
\* itself, a cycle of two pointers, cycles that pass a label; and chains of
\* 254, 255 and 256 pointers that end in a name.
NamePackets ==
    { << >>, << 0 >>, << 3, 119, 119, 119, 0 >>, << 1, 65, 2, 98, 99, 0 >>,
      << 5, 97 >>, << 1, 97 >>, << 1, 200, 0 >>, << 2, 195, 169, 0 >>,
      << 1, 34, 0 >>,
      << 64 >> \o [k \in 1..64 |-> 97] \o << 0 >>,
      << 63 >> \o [k \in 1..63 |-> 97] \o << 0 >>,
      << 192, 3, 0, 1, 97, 0 >>, << 192, 9 >>, << 192 >>, << 255, 255 >>,
      << 192, 0 >>,
      << 192, 2, 192, 0 >>,
      << 1, 97, 192, 0 >>,
      << 63 >> \o [k \in 1..63 |-> 97] \o << 192, 0 >>,
      Chain(254, << 1, 97, 0 >>),
      Chain(255, << 1, 97, 0 >>),
      Chain(256, << 1, 97, 0 >>),
      Chain(255, << 192, 97 >> \o Dotted(191) \o << 0 >>),
      Chain(255, << 194, 2 >> \o [k \in 1..193 |-> 97] \o << 0 >>) }

\* The reader starts at the front of the packet, or past its first byte,
\* and may be given the packet short of its last byte.
InitName ==
    /\ BuilderInit
    /\ clone = NoClone
    /\ qbuf = NoBuf
    /\ handle = NoHandle
    /\ big = NoBig
    /\ \E p \in NamePackets : \E cur \in {0, 1} : \E cut \in {0, 1} :
          /\ cur + cut <= Len(p)
          /\ codec = [op |-> "read_wire_packet_name", wire_packet |-> p, start |-> cur]
                        @@ read_wire_packet_labels(cur, Len(p) - cut)

\* One turn of the loop of do_read_wire_packet_labels
ReadLabel ==
    /\ codec.op = "read_wire_packet_name"
    /\ codec.status = "Reading"
    /\ \E out \in {do_read_wire_packet_labels(codec.wire_packet, codec)} :
          codec' = out
    /\ UNCHANGED << builder, clone, qbuf, handle, big >>

\* name.try_into() at the end of read_wire_packet_name
NameTryInto ==
    /\ codec.op = "read_wire_packet_name"
    /\ codec.status = "Read"
    /\ \E out \in {name_try_into(codec.name)} :
          codec' = [codec EXCEPT !.status = out.status,
                                 !.name = IF out.status = "Ok" THEN out.name ELSE codec.name]
    /\ UNCHANGED << builder, clone, qbuf, handle, big >>

NextName == ReadLabel \/ NameTryInto

\* The reader is a sequential function: it keeps running until it returns.
SpecName == InitName /\ [][NextName]_vars /\ WF_vars(NextName)

(***************************************************************************)
(* A QueryBuf built by new_zeroed and extend_from_slice                    *)
(***************************************************************************)
\* A slice of n bytes, none of them zero, that starts with v.
Slice(n, v) == [i \in 1..n |-> 1 + ((i + v) % 255)]

\* The lengths given to new_zeroed: around the inline capacity and at the
\* top of u16.
ZeroedLens == {0, 1, STACK_BUF_LIMIT - 1, STACK_BUF_LIMIT, STACK_BUF_LIMIT + 1,
               U16_MAX - 1, U16_MAX}

\* The slices appended: short ones, slices around the inline capacity, and
\* slices of u16::MAX and u16::MAX + 1 bytes.
Slices ==
    { << >>, Slice(1, 1), Slice(1, 2), Slice(2, 3),
      Slice(STACK_BUF_LIMIT - 1, 4), Slice(STACK_BUF_LIMIT, 5),
      Slice(STACK_BUF_LIMIT + 1, 6),
      Slice(U16_MAX, 7), Slice(U16_MAX + 1, 8) }

InitBuf ==
    /\ BuilderInit
    /\ clone = NoClone
    /\ codec = NoCodec
    /\ handle = NoHandle
    /\ big = NoBig
    /\ \E len \in ZeroedLens :
          qbuf = [op |-> "new_zeroed", q |-> new_zeroed(len), panicked |-> FALSE,
                  given |-> Zeros(len), appends |-> 0]

\* q.extend_from_slice(sl); `given` is what the caller has put into q.
ExtendFromSlice(sl) ==
    /\ qbuf.op # "none"
    /\ ~qbuf.panicked
    /\ qbuf.appends < MaxAppends
    /\ \E out \in {extend_from_slice(qbuf.q, sl)} :
          qbuf' = [op |-> "extend_from_slice", q |-> out.q, panicked |-> out.panicked,
                   given |-> qbuf.given \o sl, appends |-> qbuf.appends + 1]
    /\ UNCHANGED << builder, clone, codec, handle, big >>

NextBuf == \E sl \in Slices : ExtendFromSlice(sl)

SpecBuf == InitBuf /\ [][NextBuf]_vars

(***************************************************************************)
(* Two QueryBufs built side by side and compared                           *)
(***************************************************************************)
\* The number of extend_from_slice calls explored on each of the two.
MaxChunks == 2

\* The k bytes that follow the first `from` bytes of one stream of non-zero
\* bytes: buffers filled from the stream hold the same bytes at the same
\* places, however the stream was cut.
Piece(from, k) == [i \in 1..k |-> 1 + ((from + i) % 255)]

\* The lengths of the slices appended: one byte, the inline capacity, and
\* one byte more.
ChunkLens == {1, STACK_BUF_LIMIT, STACK_BUF_LIMIT + 1}

\* The slices appended to a buffer q: the next bytes of the stream, or one
\* zero byte.
Chunks(q) == { Piece(q.len, k) : k \in ChunkLens } \cup { Zeros(1) }

\* new_zeroed(la) and new_zeroed(lb)
InitPair ==
    /\ BuilderInit
    /\ clone = NoClone
    /\ codec = NoCodec
    /\ handle = NoHandle
    /\ big = NoBig
    /\ \E l \in { << 0, 0 >>, << 1, 1 >>, << 0, 1 >>, << 0, STACK_BUF_LIMIT + 1 >> } :
          qbuf = [op |-> "pair", a |-> new_zeroed(l[1]), b |-> new_zeroed(l[2]),
                  chunks_a |-> 0, chunks_b |-> 0]

\* a.extend_from_slice(sl)
ExtendFirst ==
    /\ qbuf.op = "pair"
    /\ qbuf.chunks_a < MaxChunks
    /\ \E sl \in Chunks(qbuf.a) : \E out \in {extend_from_slice(qbuf.a, sl)} :
          /\ ~out.panicked
          /\ qbuf' = [qbuf EXCEPT !.a = out.q, !.chunks_a = @ + 1]
    /\ UNCHANGED << builder, clone, codec, handle, big >>

\* b.extend_from_slice(sl)
ExtendSecond ==
    /\ qbuf.op = "pair"
    /\ qbuf.chunks_b < MaxChunks
    /\ \E sl \in Chunks(qbuf.b) : \E out \in {extend_from_slice(qbuf.b, sl)} :
          /\ ~out.panicked
          /\ qbuf' = [qbuf EXCEPT !.b = out.q, !.chunks_b = @ + 1]
    /\ UNCHANGED << builder, clone, codec, handle, big >>

NextPair == ExtendFirst \/ ExtendSecond

SpecPair == InitPair /\ [][NextPair]_vars

(***************************************************************************)
(* The shared handle (src/uniffi/src/lib.rs):                              *)
(* ProofBuilder(Mutex<(NativeProofBuilder, VecDeque<QueryBuf>)>), used by  *)
(* several threads.  A call is a sequence of steps: it asks for the mutex, *)
(* gets it, works on the pair, and gives the mutex back when its guard is  *)
(* dropped.  The builder of the pair is the builder of the variables       *)
(* above.                                                                  *)
(***************************************************************************)
Threads == {1, 2}

\* A response whose first answer is an NSEC record with a type bitmap that
\* read_nsec_types_bitmap panics on.
BitmapBomb ==
    Resp(Hdr(0, 32800, 1, 1, 0, 0), Question,
         << [name |-> "a.", ty |-> TYPE_NSec, class |-> 1, ttl |-> U32(0, 300),
             ok |-> TRUE, covered |-> 0, key_name |-> "",
             bitmap |-> << 255, 33 >> \o Bytes(255 * 32 + 33)] >>)

\* The responses given to the handle: accepted ones with no, one and two new
\* queries, one refused on its header, one that fails after a record has
\* been written, and the one that panics.
HandleResponses ==
    { PlainAnswer,
      Resp(Hdr(0, 33184, 1, 2, 0, 0), Question,
           << Rec("a.", TYPE_Txt, 300), Sig("a.", TYPE_Txt, "a.", 300) >>),
      Resp(Hdr(0, 32800, 1, 2, 0, 0), Question,
           << Rec("a.", TYPE_DS, 60), Sig("a.", TYPE_DS, ".", 60) >>),
      Resp(Hdr(0, 32802, 1, 0, 0, 0), Question, << >>),
      Resp(Hdr(0, 32800, 1, 2, 0, 0), Question, << Rec("a.", TYPE_A, 10) >>),
      BitmapBomb }

Idle(last) == [at |-> "idle", last |-> last]

\* init_proof_builder(name, ty): the builder and a queue holding the initial
\* query.
InitHandle ==
    /\ BuilderInit
    /\ clone = NoClone
    /\ codec = NoCodec
    /\ qbuf = NoBuf
    /\ big = NoBig
    /\ handle = [op |-> "init_proof_builder",
                 lock |-> 0,                \* the thread holding the mutex, or 0
                 poisoned |-> FALSE,        \* a thread panicked holding the mutex
                 queue |-> sent,            \* the VecDeque of the pair
                 pc |-> [t \in Threads |-> Idle("none")],
                 enqueued |-> sent,         \* every query pushed, in order
                 polled |-> << >>]          \* every query get_next_query returned

At(t, where) == handle.op # "none" /\ handle.pc[t].at = where

\* A thread calls process_query_response with a response shorter than
\* u16::MAX.
FeedBegin(t, r) ==
    /\ At(t, "idle")
    /\ calls < MaxFeeds
    /\ handle' = [handle EXCEPT !.pc[t] = [at |-> "feed_lock", r |-> r]]
    /\ UNCHANGED << builder, clone, codec, qbuf, big >>

\* process_query_response with a response of u16::MAX bytes or more: Ok(())
\* is returned and nothing else is done.
FeedOversize(t) ==
    /\ At(t, "idle")
    /\ handle' = [handle EXCEPT !.pc[t] = Idle("Ok")]
    /\ UNCHANGED << builder, clone, codec, qbuf, big >>

PollBegin(t) ==
    /\ At(t, "idle")
    /\ handle' = [handle EXCEPT !.pc[t] = [at |-> "poll_lock"]]
    /\ UNCHANGED << builder, clone, codec, qbuf, big >>

FinishBegin(t) ==
    /\ At(t, "idle")
    /\ handle' = [handle EXCEPT !.pc[t] = [at |-> "finish_lock"]]
    /\ UNCHANGED << builder, clone, codec, qbuf, big >>

\* self.0.lock().unwrap(): blocks while another thread holds the mutex;
\* panics when the mutex is poisoned.
Lock(t) ==
    /\ handle.op # "none"
    /\ handle.pc[t].at \in {"feed_lock", "poll_lock", "finish_lock"}
    /\ handle.lock = 0
    /\ handle' =
          IF handle.poisoned
          THEN [handle EXCEPT !.pc[t] = [at |-> "dead"]]
          ELSE [handle EXCEPT
                  !.lock = t,
                  !.pc[t] = IF @.at = "feed_lock" THEN [at |-> "feed_process", r |-> @.r]
                            ELSE IF @.at = "poll_lock" THEN [at |-> "poll_pop"]
                            ELSE [at |-> "finish_clone"]]
    /\ UNCHANGED << builder, clone, codec, qbuf, big >>

\* A variant of FeedProcess that drops the guard once process_response has
\* returned, before the queries are pushed.
FeedProcess_unlocks_early(t) ==
    /\ At(t, "feed_process")
    /\ handle.pc[t].r # BitmapBomb
    /\ \E out \in {process_response(self, handle.pc[t].r)} :
        /\ proof' = out.b.proof
        /\ min_ttl' = out.b.min_ttl
        /\ dnskeys_requested' = out.b.dnskeys_requested
        /\ pending_queries' = out.b.pending_queries
        /\ queries_made' = out.b.queries_made
        /\ ret' = Ret("process_response", out.status, out.queries, << >>, U32(0, 0))
        /\ sent' = sent \o out.queries
        /\ committed' = committed \o
               [i \in 1..(Len(out.b.proof) - Len(proof)) |-> out.status = "Ok"]
        /\ handle' = IF out.status = "Ok"
                     THEN [handle EXCEPT !.lock = 0,
                             !.pc[t] = [at |-> "feed_push", queries |-> out.queries]]
                     ELSE [handle EXCEPT !.lock = 0, !.pc[t] = Idle(out.status)]
    /\ resp' = handle.pc[t].r
    /\ calls' = calls + 1
    /\ UNCHANGED << alive, clone, codec, qbuf, big >>

\* us.0.process_response(&answer)?, with the guard `us` held.  On an error
\* the call returns and the guard is dropped.  A panic inside (the NSEC
\* bitmap reader, on a record that is parsed) unwinds through the guard:
\* the mutex is released and poisoned.
FeedProcess(t) ==
    /\ At(t, "feed_process")
    /\ IF /\ handle.pc[t].r = BitmapBomb
          /\ pending_queries > 0
          /\ read_nsec_types_bitmap(handle.pc[t].r.rrs[1].bitmap, << >>).status = "Panic"
       THEN /\ handle' = [handle EXCEPT !.lock = 0, !.poisoned = TRUE,
                                        !.pc[t] = [at |-> "dead"]]
            /\ UNCHANGED << builder >>
       ELSE /\ \E out \in {process_response(self, handle.pc[t].r)} :
               /\ proof' = out.b.proof
               /\ min_ttl' = out.b.min_ttl
               /\ dnskeys_requested' = out.b.dnskeys_requested
               /\ pending_queries' = out.b.pending_queries
               /\ queries_made' = out.b.queries_made
               /\ ret' = Ret("process_response", out.status, out.queries, << >>, U32(0, 0))
               /\ sent' = sent \o out.queries
               /\ committed' = committed \o
                      [i \in 1..(Len(out.b.proof) - Len(proof)) |-> out.status = "Ok"]
               /\ handle' = IF out.status = "Ok"
                            THEN [handle EXCEPT
                                    !.pc[t] = [at |-> "feed_push", queries |-> out.queries]]
                            ELSE [handle EXCEPT !.lock = 0, !.pc[t] = Idle(out.status)]
            /\ resp' = handle.pc[t].r
            /\ calls' = calls + 1
            /\ UNCHANGED alive
    /\ UNCHANGED << clone, codec, qbuf, big >>

\* for query in queries { us.1.push_back(query); } and, after the last one,
\* Ok(()) with the guard dropped.
FeedPush(t) ==
    /\ At(t, "feed_push")
    /\ handle' =
          IF handle.pc[t].queries = << >>
          THEN [handle EXCEPT !.lock = 0, !.pc[t] = Idle("Ok")]
          ELSE [handle EXCEPT
                  !.queue = Append(@, Head(handle.pc[t].queries)),
                  !.enqueued = Append(@, Head(handle.pc[t].queries)),
                  !.pc[t] = [at |-> "feed_push", queries |-> Tail(@.queries)]]
    /\ UNCHANGED << builder, clone, codec, qbuf, big >>

\* get_next_query: pop_front under the guard, which is dropped at the end of
\* the `if let`.
PollPop(t) ==
    /\ At(t, "poll_pop")
    /\ handle' =
          IF handle.queue = << >>
          THEN [handle EXCEPT !.lock = 0, !.pc[t] = Idle("None")]
          ELSE [handle EXCEPT
                  !.lock = 0,
                  !.queue = Tail(@),
                  !.polled = Append(@, Head(handle.queue)),
                  !.pc[t] = Idle("Some")]
    /\ UNCHANGED << builder, clone, codec, qbuf, big >>

\* get_unverified_proof: the builder is cloned and the clone finished, under
\* the guard.
FinishClone(t) ==
    /\ At(t, "finish_clone")
    /\ handle' = [handle EXCEPT
                    !.lock = 0,
                    !.pc[t] = Idle(IF finish_proof(self).ok THEN "Proof" ELSE "NoProof")]
    /\ UNCHANGED << builder, clone, codec, qbuf, big >>

NextHandle ==
    \E t \in Threads :
        \/ \E r \in HandleResponses : FeedBegin(t, r)
        \/ FeedOversize(t)
        \/ PollBegin(t)
        \/ FinishBegin(t)
        \/ Lock(t)
        \/ FeedProcess(t)
        \/ FeedPush(t)
        \/ PollPop(t)
        \/ FinishClone(t)

SpecHandle == InitHandle /\ [][NextHandle]_vars

(***************************************************************************)
(* Big integers (src/crypto/bigint.rs)                                     *)
(*                                                                         *)
(* A u64 is held as its 8 big-endian bytes and a u128 as its 16, so that   *)
(* every limb keeps its width; an [u64; N] is a sequence of N limbs, most  *)
(* significant first, as in the source.  debug_assert! lines are left out: *)
(* they change nothing in a release build.                                 *)
(***************************************************************************)
\* `let v = x;` followed by F: x is evaluated once and F is applied to its
\* value.
Let(x, F(_)) == CHOOSE r \in { F(v) : v \in {x} } : TRUE

U64_ZERO == Zeros(8)
U64_ONE == Zeros(7) \o << 1 >>
U64_MAX == Bytes(8)

\* A small count as a u64: `flag as u64`, or a sum of such.
as_u64(n) == Zeros(7) \o << n >>

\* Column sums, most significant first, to base-256 digits: the carry into
\* the last column is c, the carry (or borrow, -1) out of the first column
\* is the head of the result.  The low half of the columns is carried
\* first, then the high half with the carry out of the low half.
RECURSIVE Carry(_, _)
Carry(cols, c) ==
    IF cols = << >> THEN << c >>
    ELSE IF Len(cols) = 1 THEN << (cols[1] + c) \div 256, (cols[1] + c) % 256 >>
    ELSE LET m == Len(cols) \div 2
             low == Carry(SubSeq(cols, m + 1, Len(cols)), c)
         IN IF Head(low) = 0
            THEN Carry(SubSeq(cols, 1, m), 0) \o Tail(low)
            ELSE Carry(SubSeq(cols, 1, m), Head(low)) \o Tail(low)

\* The sum of x[i] * y[k - i] over the digits lo .. hi of x.
RECURSIVE ColSum(_, _, _, _, _)
ColSum(x, y, k, lo, hi) ==
    IF lo > hi THEN 0
    ELSE IF lo = hi
         THEN (IF k - lo >= 1 /\ k - lo <= Len(y) THEN x[lo] * y[k - lo] ELSE 0)
    ELSE ColSum(x, y, k, lo, (lo + hi) \div 2)
           + ColSum(x, y, k, ((lo + hi) \div 2) + 1, hi)

\* The exact product of two naturals given by their big-endian bytes, in
\* Len(x) + Len(y) bytes: for two u64 `as u128` this is the u128 `*`.
Product(x, y) ==
    Carry([k \in 1..(Len(x) + Len(y) - 1) |-> ColSum(x, y, k + 1, 1, Len(x))], 0)

\* The wrapped value and the overflow flag of a sum or difference whose
\* digits, carry first, are r.
Wrapped(r) == << Tail(r), Head(r) # 0 >>

\* u64::overflowing_add and u128::overflowing_add
overflowing_add(a, b) == Wrapped(Carry([i \in 1..Len(a) |-> a[i] + b[i]], 0))

\* u64::overflowing_sub
overflowing_sub(a, b) == Wrapped(Carry([i \in 1..Len(a) |-> a[i] - b[i]], 0))

\* a[i] << 1 on a u64: the top bit is shifted out.
shl_1(a) == Tail(Carry([i \in 1..Len(a) |-> 2 * a[i]], 0))

\* a > b on two u64
u64_greater(a, b) ==
    \E i \in 1..Len(a) : a[i] > b[i] /\ \A j \in 1..(i - 1) : a[j] = b[j]

\* &a[start..end]
const_subslice(a, start, end) == SubSeq(a, start + 1, end)

\* &a[start..start + N]
const_subarr(a, start, N) == SubSeq(a, start + 1, start + N)

\* Const version of a > b
RECURSIVE slice_greater_than_from(_, _, _)
slice_greater_than_from(a, b, i) ==
    IF i > Len(a) THEN FALSE
    ELSE IF u64_greater(a[i], b[i]) THEN TRUE
    ELSE IF u64_greater(b[i], a[i]) THEN FALSE
    ELSE slice_greater_than_from(a, b, i + 1)

slice_greater_than(a, b) == slice_greater_than_from(a, b, 1)

\* Const version of a == b
slice_equal(a, b) == \A i \in 1..Len(a) : a[i] = b[i]

\* The loop of add_u64! at limb i, `done` being the limbs below i as the loop
\* has left them.
RECURSIVE add_u64_from(_, _, _, _)
add_u64_from(a, done, add, i) ==
    Let(overflowing_add(a[i], add), LAMBDA s :
    IF ~s[2] THEN << SubSeq(a, 1, i - 1) \o << s[1] >> \o done, FALSE >>
    ELSE IF i = 1 THEN << << s[1] >> \o done, TRUE >>
    ELSE add_u64_from(a, << s[1] >> \o done, U64_ONE, i - 1))

\* add_u64!(a, b): adds the u64 b in place; << a, overflow >>
add_u64(a, b) == add_u64_from(a, << >>, b, Len(a))

\* The loop of double!, `done` being the limbs already doubled, the lowest
\* ones, and carry the bit shifted out of them.
RECURSIVE double_from(_, _, _)
double_from(a, done, carry) ==
    IF Len(done) = Len(a) THEN << done, carry >>
    ELSE LET i == Len(a) - Len(done)
             next_carry == a[i][1] >= 128
             v == overflowing_add(shl_1(a[i]), as_u64(IF carry THEN 1 ELSE 0))[1]
         IN double_from(a, << v >> \o done, next_carry)

\* double!(a): doubles in place; << a, overflow >>
double(a) == double_from(a, << >>, FALSE)

\* The loop of add, r being the limbs of the result already written, the
\* lowest ones.
RECURSIVE add_from(_, _, _, _)
add_from(a, b, r, carry) ==
    IF Len(r) = Len(a) THEN << r, carry >>
    ELSE LET i == Len(a) - Len(r)
         IN Let(overflowing_add(a[i], b[i]), LAMBDA s1 :
            Let(overflowing_add(s1[1], as_u64(IF carry THEN 1 ELSE 0)), LAMBDA s2 :
            add_from(a, b, << s2[1] >> \o r, s1[2] \/ s2[2])))

\* add(a, b): << a + b wrapped, carry >>
add(a, b) == add_from(a, b, << >>, FALSE)

\* The loop of sub, r being the limbs of the result already written, the
\* lowest ones.
RECURSIVE sub_from(_, _, _, _)
sub_from(a, b, r, carry) ==
    IF Len(r) = Len(a) THEN << r, carry >>
    ELSE LET i == Len(a) - Len(r)
         IN Let(overflowing_sub(a[i], b[i]), LAMBDA s1 :
            Let(overflowing_sub(s1[1], as_u64(IF carry THEN 1 ELSE 0)), LAMBDA s2 :
            sub_from(a, b, << s2[1] >> \o r, s1[2] \/ s2[2])))

\* sub(a, b): << a - b wrapped, borrow >>
sub(a, b) == sub_from(a, b, << >>, FALSE)

\* Adds the gradeschool multiplication intermediate parts to a final
\* 256-bit result.
add_mul_2_parts(z2, z1, z0, i_carry_a) ==
    LET z2a == SubSeq(z2, 1, 8)
        z1a == SubSeq(z1, 1, 8)
        z0a == SubSeq(z0, 1, 8)
        z2b == SubSeq(z2, 9, 16)
        z1b == SubSeq(z1, 9, 16)
        z0b == SubSeq(z0, 9, 16)
        l == z0b
    IN Let(overflowing_add(z0a, z1b), LAMBDA k :
       Let(overflowing_add(z1a, z2b), LAMBDA j1 :
       Let(overflowing_add(j1[1], as_u64(IF k[2] THEN 1 ELSE 0)), LAMBDA j :
       LET i_carry == (IF i_carry_a THEN 1 ELSE 0) + (IF j1[2] THEN 1 ELSE 0)
                        + (IF j[2] THEN 1 ELSE 0)
           i == overflowing_add(z2a, as_u64(i_carry))
       IN << i[1], j[1], k[1], l >>)))

\* Multiplies two 128-bit integers together, returning a new 256-bit integer.
mul_2(a, b) ==
    Let(Product(a[1], b[1]), LAMBDA z2 :
    Let(Product(a[1], b[2]), LAMBDA z1i :
    Let(Product(b[1], a[2]), LAMBDA z1j :
    Let(overflowing_add(z1i, z1j), LAMBDA z1 :
    Let(Product(a[2], b[2]), LAMBDA z0 :
    add_mul_2_parts(z2, z1[1], z0, z1[2]))))))

\* terms[1].overflowing_add(terms[2]), then .overflowing_add(terms[3]), ...:
\* << the wrapped sum, the number of additions that overflowed >>
RECURSIVE add_terms(_, _, _)
add_terms(v, carries, terms) ==
    IF terms = << >> THEN << v, carries >>
    ELSE LET s == overflowing_add(v, Head(terms))
         IN add_terms(s[1], carries + (IF s[2] THEN 1 ELSE 0), Tail(terms))

mul_3(a, b) ==
    LET hi(m) == SubSeq(m, 1, 8)
        lo(m) == SubSeq(m, 9, 16)
    IN Let(Product(a[3], b[3]), LAMBDA m4 :
       Let(Product(a[3], b[2]), LAMBDA m3a :
       Let(Product(a[2], b[3]), LAMBDA m3b :
       Let(Product(a[3], b[1]), LAMBDA m2a :
       Let(Product(a[2], b[2]), LAMBDA m2b :
       Let(Product(a[1], b[3]), LAMBDA m2c :
       Let(Product(a[2], b[1]), LAMBDA m1a :
       Let(Product(a[1], b[2]), LAMBDA m1b :
       Let(Product(a[1], b[1]), LAMBDA m0 :
       LET r5 == lo(m4)
       IN Let(add_terms(hi(m4), 0, << lo(m3a), lo(m3b) >>), LAMBDA r4 :
          Let(add_terms(hi(m3a), 0,
                        << hi(m3b), lo(m2a), lo(m2b), lo(m2c), as_u64(r4[2]) >>),
              LAMBDA r3 :
          Let(add_terms(hi(m2a), 0,
                        << hi(m2b), hi(m2c), lo(m1a), lo(m1b), as_u64(r3[2]) >>),
              LAMBDA r2 :
          Let(add_terms(hi(m1a), 0, << hi(m1b), lo(m0), as_u64(r2[2]) >>),
              LAMBDA r1 :
          LET r0 == overflowing_add(hi(m0), as_u64(r1[2]))
          IN << r0[1], r1[1], r2[1], r3[1], r4[1], r5 >>)))))))))))))

RECURSIVE mul_N(_, _, _)
RECURSIVE define_mul_adds_carries(_, _, _)
RECURSIVE define_mul(_, _, _)

\* A variant of define_mul that takes the carry of the middle term as the
\* two carries added instead of their difference when z1m is subtracted.
define_mul_adds_carries(len, a, b) ==
    LET h == len \div 2
        a0 == const_subarr(a, 0, h)
        a1 == const_subarr(a, h, h)
        b0 == const_subarr(b, 0, h)
        b1 == const_subarr(b, h, h)
        z1a_sign == slice_greater_than(a1, a0)
        z1b_sign == slice_greater_than(b1, b0)
        z1m_sign == z1a_sign = z1b_sign
    IN Let(mul_N(h, a0, b0), LAMBDA z2 :
       Let(mul_N(h, a1, b1), LAMBDA z0 :
       Let(IF z1a_sign THEN sub(a1, a0) ELSE sub(a0, a1), LAMBDA z1a :
       Let(IF z1b_sign THEN sub(b1, b0) ELSE sub(b0, b1), LAMBDA z1b :
       Let(mul_N(h, z1a[1], z1b[1]), LAMBDA z1m :
       Let(add(z0, z2), LAMBDA z1n :
       Let(IF z1m_sign THEN sub(z1n[1], z1m) ELSE add(z1n[1], z1m), LAMBDA r :
       LET z1_carry == z1n[2] \/ r[2]
           z1 == r[1]
           z0_start == const_subarr(z0, 0, h)
           z1_start == const_subarr(z1, 0, h)
           z1_end == const_subarr(z1, h, h)
           z2_end == const_subarr(z2, h, h)
           l == const_subslice(z0, h, len)
       IN Let(add(z0_start, z1_end), LAMBDA k :
          Let(add(z1_start, z2_end), LAMBDA j1 :
          Let(IF k[2] THEN add_u64(j1[1], U64_ONE) ELSE << j1[1], FALSE >>, LAMBDA j :
          LET i_source == const_subslice(z2, 0, h)
              i_carry == (IF j1[2] THEN 1 ELSE 0) + (IF j[2] THEN 1 ELSE 0)
                           + (IF z1_carry THEN 1 ELSE 0)
              i == IF i_carry # 0 THEN add_u64(i_source, as_u64(i_carry))[1]
                   ELSE i_source
          IN IF Len(z2) # len \/ Len(z0) # len \/ Len(z1m) # len THEN << >>
             ELSE i \o j[1] \o k[1] \o l))))))))))

\* define_mul!(name, len, submul): the body of mul_4, mul_6, mul_8, mul_16,
\* mul_32 and mul_64, Karatsuba over the two halves of a and b.  The three
\* half-length products z2, z0 and z1m are [u64; len] arrays.
define_mul(len, a, b) ==
    LET h == len \div 2
        a0 == const_subarr(a, 0, h)
        a1 == const_subarr(a, h, h)
        b0 == const_subarr(b, 0, h)
        b1 == const_subarr(b, h, h)
        z1a_sign == slice_greater_than(a1, a0)
        z1b_sign == slice_greater_than(b1, b0)
        z1m_sign == z1a_sign = z1b_sign
    IN Let(mul_N(h, a0, b0), LAMBDA z2 :
       Let(mul_N(h, a1, b1), LAMBDA z0 :
       Let(IF z1a_sign THEN sub(a1, a0) ELSE sub(a0, a1), LAMBDA z1a :
       Let(IF z1b_sign THEN sub(b1, b0) ELSE sub(b0, b1), LAMBDA z1b :
       Let(mul_N(h, z1a[1], z1b[1]), LAMBDA z1m :
       Let(add(z0, z2), LAMBDA z1n :
       Let(IF z1m_sign THEN sub(z1n[1], z1m) ELSE add(z1n[1], z1m), LAMBDA r :
       LET z1_carry == IF z1m_sign THEN z1n[2] # r[2] ELSE z1n[2] \/ r[2]
           z1 == r[1]
           z0_start == const_subarr(z0, 0, h)
           z1_start == const_subarr(z1, 0, h)
           z1_end == const_subarr(z1, h, h)
           z2_end == const_subarr(z2, h, h)
           l == const_subslice(z0, h, len)
       IN Let(add(z0_start, z1_end), LAMBDA k :
          Let(add(z1_start, z2_end), LAMBDA j1 :
          Let(IF k[2] THEN add_u64(j1[1], U64_ONE) ELSE << j1[1], FALSE >>, LAMBDA j :
          LET i_source == const_subslice(z2, 0, h)
              i_carry == (IF j1[2] THEN 1 ELSE 0) + (IF j[2] THEN 1 ELSE 0)
                           + (IF z1_carry THEN 1 ELSE 0)
              i == IF i_carry # 0 THEN add_u64(i_source, as_u64(i_carry))[1]
                   ELSE i_source
          IN IF Len(z2) # len \/ Len(z0) # len \/ Len(z1m) # len THEN << >>
             ELSE i \o j[1] \o k[1] \o l))))))))))

\* mul_2, mul_3, and mul_4 .. mul_64 as define_mul! instantiates them: each
\* over the multiplication of half its length.
mul_N(len, a, b) ==
    IF len = 2 THEN mul_2(a, b)
    ELSE IF len = 3 THEN mul_3(a, b)
    ELSE define_mul(len, a, b)

\* One turn of the first loop of div_rem, which collects the powers of two
\* times b up to a: cap is the length of the array pow2s, and a write past
\* it panics.
div_rem_pow2s_step(a, cap, s) ==
    IF ~slice_greater_than(a, s.b_pow) THEN [s EXCEPT !.at = "out"]
    ELSE IF Len(s.pow2s) >= cap THEN [s EXCEPT !.at = "panic"]
    ELSE LET d == double(s.b_pow)
         IN [at |-> IF d[2] THEN "out" ELSE "loop", b_pow |-> d[1],
             pow2s |-> Append(s.pow2s, s.b_pow)]

\* Up to n turns of the first loop from s: the first half of the turns,
\* then the rest.
RECURSIVE div_rem_pow2s(_, _, _, _)
div_rem_pow2s(a, cap, n, s) ==
    IF s.at # "loop" THEN s
    ELSE IF n = 1 THEN div_rem_pow2s_step(a, cap, s)
    ELSE div_rem_pow2s(a, cap, n - (n \div 2), div_rem_pow2s(a, cap, n \div 2, s))

\* quot[len - 1] |= 1
or_1(quot) ==
    LET last == quot[Len(quot)]
    IN SubSeq(quot, 1, Len(quot) - 1)
         \o << SubSeq(last, 1, 7) \o << IF last[8] % 2 = 0 THEN last[8] + 1 ELSE last[8] >> >>

\* One turn of the second loop of div_rem, which subtracts the powers in
\* decreasing order.
div_rem_subtract_step(pow2s, s) ==
    LET b_pow == pow2s[s.pow2 + 1]
        doubled == double(s.quot)[1]
        larger == slice_greater_than(s.rem, b_pow)
    IN [pow2 |-> s.pow2 - 1,
        quot |-> IF larger THEN or_1(doubled) ELSE doubled,
        rem |-> IF larger THEN sub(s.rem, b_pow)[1] ELSE s.rem]

\* Up to n turns of the second loop from s.
RECURSIVE div_rem_subtract(_, _, _)
div_rem_subtract(pow2s, n, s) ==
    IF s.pow2 < 0 THEN s
    ELSE IF n = 1 THEN div_rem_subtract_step(pow2s, s)
    ELSE div_rem_subtract(pow2s, n - (n \div 2), div_rem_subtract(pow2s, n \div 2, s))

\* A variant of div_rem that returns what the second loop leaves, without
\* looking whether the remainder is b itself.
div_rem_keeps_full_remainder(len, a, b) ==
    LET zero == [i \in 1..len |-> U64_ZERO]
    IN IF slice_equal(b, zero) THEN [status |-> "Err"]
       ELSE Let(div_rem_pow2s(a, len * 64, len * 64 + 1,
                              [at |-> "loop", b_pow |-> b, pow2s |-> << >>]),
                LAMBDA first :
            IF first.at = "panic" THEN [status |-> "Panic"]
            ELSE Let(div_rem_subtract(first.pow2s, len * 64,
                                      [pow2 |-> Len(first.pow2s) - 1, quot |-> zero,
                                       rem |-> a]),
                     LAMBDA second :
                 [status |-> "Ok", quot |-> second.quot, rem |-> second.rem]))

\* define_div_rem!(name, len, [[0; len]; len * 64], ..): the body of
\* div_rem_2, div_rem_4, div_rem_6, ...
div_rem(len, a, b) ==
    LET zero == [i \in 1..len |-> U64_ZERO]
    IN IF slice_equal(b, zero) THEN [status |-> "Err"]
       ELSE Let(div_rem_pow2s(a, len * 64, len * 64 + 1,
                              [at |-> "loop", b_pow |-> b, pow2s |-> << >>]),
                LAMBDA first :
            IF first.at = "panic" THEN [status |-> "Panic"]
            ELSE Let(div_rem_subtract(first.pow2s, len * 64,
                                      [pow2 |-> Len(first.pow2s) - 1, quot |-> zero,
                                       rem |-> a]),
                     LAMBDA second :
                 IF slice_equal(second.rem, b)
                 THEN [status |-> "Ok", quot |-> add_u64(second.quot, U64_ONE)[1],
                       rem |-> zero]
                 ELSE [status |-> "Ok", quot |-> second.quot, rem |-> second.rem]))

\* negate!(v): every limb is complemented, then one is added.
negate(v) ==
    add_u64([i \in 1..Len(v) |-> [k \in 1..8 |-> 255 - v[i][k]]], U64_ONE)[1]

\* sub_abs(a, b): << |a - b|, a < b >>
sub_abs(a, b) ==
    Let(sub(a, b), LAMBDA r :
    IF r[2] THEN << negate(r[1]), TRUE >> ELSE r)

\* One turn of the loop of mod_inv: the extended Euclidean step on
\* (old_r, r) and on the first Bezout coefficient (old_s, s), whose signs
\* are held apart in old_s_neg and s_neg.
mod_inv_step(len, st) ==
    Let(div_rem(len, st.old_r, st.r), LAMBDA d :
    Let(mul_N(len, d.quot, st.s), LAMBDA new_sa :
    Let(IF ~st.old_s_neg /\ ~st.s_neg
        THEN sub_abs(st.old_s, const_subarr(new_sa, len, len))
        ELSE << add(st.old_s, const_subarr(new_sa, len, len))[1], st.old_s_neg >>,
        LAMBDA new :
    [old_r |-> st.r, r |-> d.rem, old_s |-> st.s, old_s_neg |-> st.s_neg,
     s |-> new[1], s_neg |-> new[2]])))

\* Up to n turns of the loop from st: the first half of the turns, then the
\* rest.
RECURSIVE mod_inv_loop(_, _, _)
mod_inv_loop(len, n, st) ==
    IF slice_equal(st.r, [i \in 1..len |-> U64_ZERO]) THEN st
    ELSE IF n = 1 THEN mod_inv_step(len, st)
    ELSE mod_inv_loop(len, n - (n \div 2), mod_inv_loop(len, n \div 2, st))

\* A variant of mod_inv that returns the coefficient as it is, whatever its
\* sign.
mod_inv_forgets_sign(len, a, m) ==
    LET zero == [i \in 1..len |-> U64_ZERO]
        one == [i \in 1..len |-> IF i = len THEN U64_ONE ELSE U64_ZERO]
    IN IF slice_equal(a, zero) \/ slice_equal(m, zero) THEN [status |-> "Err"]
       ELSE Let(mod_inv_loop(len, 128 * len,
                             [old_r |-> a, r |-> m, old_s |-> one,
                              old_s_neg |-> FALSE, s |-> zero, s_neg |-> FALSE]),
                LAMBDA last :
            IF \/ ~slice_equal(const_subslice(last.old_r, 0, len - 1),
                               const_subslice(zero, 0, len - 1))
               \/ last.old_r[len] # U64_ONE
            THEN [status |-> "Err"]
            ELSE [status |-> "Ok", inv |-> last.old_s])

\* define_mod_inv!(name, len, div, mul): the body of mod_inv_2, mod_inv_4,
\* mod_inv_6 and mod_inv_8.  The loop ends within 128 * len turns: r
\* shrinks at every turn after the first and halves every two.
mod_inv(len, a, m) ==
    LET zero == [i \in 1..len |-> U64_ZERO]
        one == [i \in 1..len |-> IF i = len THEN U64_ONE ELSE U64_ZERO]
    IN IF slice_equal(a, zero) \/ slice_equal(m, zero) THEN [status |-> "Err"]
       ELSE Let(mod_inv_loop(len, 128 * len,
                             [old_r |-> a, r |-> m, old_s |-> one,
                              old_s_neg |-> FALSE, s |-> zero, s_neg |-> FALSE]),
                LAMBDA last :
            IF \/ ~slice_equal(const_subslice(last.old_r, 0, len - 1),
                               const_subslice(zero, 0, len - 1))
               \/ last.old_r[len] # U64_ONE
            THEN [status |-> "Err"]
            ELSE IF last.old_s_neg
                 THEN [status |-> "Ok", inv |-> sub_abs(m, last.old_s)[1]]
            ELSE [status |-> "Ok", inv |-> last.old_s])

\* Squares a 128-bit integer, returning a new 256-bit integer.
sqr_2(a) ==
    Let(Product(a[1], a[1]), LAMBDA z2 :
    Let(Product(a[1], a[2]), LAMBDA z1 :
    Let(Product(a[2], a[2]), LAMBDA z0 :
    add_mul_2_parts(z2, shl_1(z1), z0, z1[1] >= 128))))

RECURSIVE sqr_N(_, _)

\* define_sqr!(name, len, submul, subsqr): the body of sqr_4, sqr_6, sqr_8,
\* sqr_16, sqr_32 and sqr_64, two half-length squares and one doubled
\* half-length product, each a [u64; len] array.
define_sqr(len, a) ==
    LET h == len \div 2
        hi == const_subarr(a, 0, h)
        lo == const_subarr(a, h, h)
    IN Let(sqr_N(h, lo), LAMBDA v0 :
       Let(double(mul_N(h, hi, lo)), LAMBDA v1d :
       Let(sqr_N(h, hi), LAMBDA v2 :
       LET v1 == v1d[1]
           v0_start == const_subarr(v0, 0, h)
           v1_start == const_subarr(v1, 0, h)
           v1_end == const_subarr(v1, h, h)
           v2_end == const_subarr(v2, h, h)
           l == const_subslice(v0, h, len)
       IN Let(add(v0_start, v1_end), LAMBDA k :
          Let(add(v1_start, v2_end), LAMBDA j1 :
          Let(IF k[2] THEN add_u64(j1[1], U64_ONE) ELSE << j1[1], FALSE >>, LAMBDA j :
          LET i_source == const_subslice(v2, 0, h)
              i_carry == (IF v1d[2] THEN 1 ELSE 0) + (IF j1[2] THEN 1 ELSE 0)
                           + (IF j[2] THEN 1 ELSE 0)
              i == IF i_carry # 0 THEN add_u64(i_source, as_u64(i_carry))[1]
                   ELSE i_source
          IN IF Len(v0) # len \/ Len(v1) # len \/ Len(v2) # len THEN << >>
             ELSE i \o j[1] \o k[1] \o l))))))

\* sqr_2, sqr_3, and sqr_4 .. sqr_64 as define_sqr! instantiates them.
sqr_N(len, a) ==
    IF len = 2 THEN sqr_2(a)
    ELSE IF len = 3 THEN mul_3(a, a)
    ELSE define_sqr(len, a)

(***************************************************************************)
(* U4096::expmod_odd_mod                                                   *)
(*                                                                         *)
(* The function is written over W limbs, W being WORD_COUNT_4096 in the    *)
(* source: its three width profiles are the low quarter, the low half and  *)
(* all of the W limbs, with R = 2^(64 * word_count).                       *)
(***************************************************************************)
\* [0; n]
ZeroLimbs(n) == [i \in 1..n |-> U64_ZERO]

\* An array that is zero but for its last limb.
SmallLimbs(n, last) == [i \in 1..n |-> IF i = n THEN as_u64(last) ELSE U64_ZERO]

\* A variant of word_count that takes a modulus whose high half is zero to
\* have its three high quarters zero.
word_count_skips_half(W, m) ==
    IF SubSeq(m, 1, W \div 2) = ZeroLimbs(W \div 2) THEN W \div 4 ELSE W

\* The word count the zero prefix of the modulus selects.
word_count(W, m) ==
    IF SubSeq(m, 1, W \div 2) = ZeroLimbs(W \div 2)
    THEN IF SubSeq(m, 1, (W * 3) \div 4) = ZeroLimbs((W * 3) \div 4)
         THEN W \div 4
         ELSE W \div 2
    ELSE W

\* log_bits, the base-2 logarithm of the bits of R: 10, 11 and 12 for 16, 32
\* and 64 words.
log_bits(wc) == CHOOSE k \in 1..12 : 2 ^ k = 64 * wc

\* mul_16_subarr, mul_32_subarr and mul_64, on a: &[u64; W] and
\* b: &[u64; W]: the product of the low wc limbs of a and b, in the low
\* limbs of a double-width array.
mul_subarr(W, wc, a, b) ==
    IF Len(a) # W \/ Len(b) # W THEN << >>
    ELSE ZeroLimbs(2 * W - 2 * wc)
            \o mul_N(wc, const_subarr(a, W - wc, wc), const_subarr(b, W - wc, wc))

\* sqr_16_subarr, sqr_32_subarr and sqr_64
sqr_subarr(W, wc, a) ==
    IF Len(a) # W THEN << >>
    ELSE ZeroLimbs(2 * W - 2 * wc) \o sqr_N(wc, const_subarr(a, W - wc, wc))

\* add_32_subarr, add_64_subarr and add on double-width arrays
add_double(W, wc, a, b) ==
    IF Len(a) # 2 * W \/ Len(b) # 2 * W THEN << >>
    ELSE Let(add(const_subarr(a, 2 * W - 2 * wc, 2 * wc),
                 const_subarr(b, 2 * W - 2 * wc, 2 * wc)),
             LAMBDA r :
         << ZeroLimbs(2 * W - 2 * wc) \o r[1], r[2] >>)

\* sub_16_subarr, sub_32_subarr and sub
sub_subarr(W, wc, a, b) ==
    IF Len(a) # W \/ Len(b) # W THEN << >>
    ELSE Let(sub(const_subarr(a, W - wc, wc), const_subarr(b, W - wc, wc)),
             LAMBDA r :
         << ZeroLimbs(W - wc) \o r[1], r[2] >>)

\* The loop that computes the inverse of m modulo R by Newton's iteration,
\* n turns of it from m_inv_pos: the first half of the turns, then the rest.
RECURSIVE m_inv_loop(_, _, _, _, _)
m_inv_loop(W, wc, m, n, m_inv_pos) ==
    IF n = 0 \/ Len(m_inv_pos) # W THEN m_inv_pos
    ELSE IF n > 1
         THEN m_inv_loop(W, wc, m, n - (n \div 2),
                         m_inv_loop(W, wc, m, n \div 2, m_inv_pos))
    ELSE Let(ZeroLimbs(2 * W - wc)
                \o SubSeq(mul_subarr(W, wc, m_inv_pos, m), 2 * W - wc + 1, 2 * W),
             LAMBDA m_m_inv :
         Let(mul_subarr(W, wc,
                        sub_subarr(W, wc, SmallLimbs(W, 2),
                                   const_subarr(m_m_inv, W, W))[1],
                        m_inv_pos),
             LAMBDA m_inv :
         SubSeq(m_inv_pos, 1, W - wc) \o SubSeq(m_inv, 2 * W - wc + 1, 2 * W)))

\* The negative inverse of m modulo R.
negative_m_inv(W, wc, m) ==
    LET m_inv_pos == ZeroLimbs(W - wc)
                        \o SubSeq(m_inv_loop(W, wc, m, log_bits(wc), SmallLimbs(W, 1)),
                                  W - wc + 1, W)
    IN ZeroLimbs(W - wc) \o SubSeq(negate(m_inv_pos), W - wc + 1, W)

\* a >= b on arrays of limbs (the derived Ord of [u64; N]).
slice_not_less(a, b) == ~slice_greater_than(b, a)

\* The closure mont_reduction of expmod_odd_mod: (mu + v * m) / R with
\* v = (mu mod R) * m_inv mod R, less m when that is m or more.
mont_reduction(W, wc, m, m_inv, mu) ==
    IF Len(mu) # 2 * W THEN << >>
    ELSE LET mu_mod_r == ZeroLimbs(W - wc) \o SubSeq(mu, 2 * W - wc + 1, 2 * W)
         IN Let(ZeroLimbs(2 * W - wc)
                   \o SubSeq(mul_subarr(W, wc, mu_mod_r, m_inv), 2 * W - wc + 1, 2 * W),
                LAMBDA v :
            Let(mul_subarr(W, wc, const_subarr(v, W, W), m), LAMBDA t0 :
            Let(add_double(W, wc, t0, mu), LAMBDA t1 :
            Let(ZeroLimbs(W - wc) \o SubSeq(t1[1], 2 * W - 2 * wc + 1, 2 * W - wc),
                LAMBDA t1_on_r :
            IF t1[2] \/ slice_not_less(t1_on_r, m)
            THEN sub_subarr(W, wc, t1_on_r, m)[1]
            ELSE t1_on_r))))

\* R mod m: (R - 1) mod m, plus one, less m when that is m or more.
r_mod_m(W, wc, m) ==
    LET r_minus_one == ZeroLimbs(W - wc) \o [i \in 1..wc |-> U64_MAX]
    IN Let(add_u64(div_rem(W, r_minus_one, m).rem, U64_ONE), LAMBDA rem :
       IF rem[2] \/ slice_not_less(rem[1], m) THEN sub(rem[1], m)[1] ELSE rem[1])

\* n turns of the loop that doubles r2 modulo m.
RECURSIVE doubles_loop(_, _, _)
doubles_loop(m, n, r2) ==
    IF n = 0 \/ Len(r2) # Len(m) THEN r2
    ELSE IF n > 1
         THEN doubles_loop(m, n - (n \div 2), doubles_loop(m, n \div 2, r2))
    ELSE Let(double(r2), LAMBDA d :
         IF d[2] \/ slice_greater_than(d[1], m) THEN sub(d[1], m)[1] ELSE d[1])

\* n turns of the loop that squares r2 in Montgomery form.
RECURSIVE squares_loop(_, _, _, _, _, _)
squares_loop(W, wc, m, m_inv, n, r2) ==
    IF n = 0 \/ Len(r2) # W THEN r2
    ELSE IF n > 1
         THEN squares_loop(W, wc, m, m_inv, n - (n \div 2),
                           squares_loop(W, wc, m, m_inv, n \div 2, r2))
    ELSE mont_reduction(W, wc, m, m_inv, sqr_subarr(W, wc, r2))

\* u64::leading_zeros
leading_zeros(limb) ==
    IF limb = U64_ZERO THEN 64
    ELSE LET j == CHOOSE j \in 1..8 : limb[j] # 0 /\ \A k \in 1..(j - 1) : limb[k] = 0
             bits == CHOOSE n \in 1..8 : 2 ^ (n - 1) <= limb[j] /\ limb[j] < 2 ^ n
         IN 8 * (j - 1) + (8 - bits)

\* limb & !(0xffff_ffff_ffff_ffff << keep): the low `keep` bits of limb.
low_bits(limb, keep) ==
    [j \in 1..8 |->
        LET below == 64 - 8 * j
        IN IF keep >= below + 8 THEN limb[j]
           ELSE IF keep <= below THEN 0
           ELSE limb[j] % (2 ^ (keep - below))]

\* The loop that clears, in r2, the bits above the highest bit of m,
\* from limb i.
RECURSIVE clear_excess(_, _, _)
clear_excess(m, r2, i) ==
    IF i > Len(m) THEN r2
    ELSE LET clear_bits == leading_zeros(m[i])
         IN IF clear_bits = 0 THEN r2
            ELSE LET cleared == SubSeq(r2, 1, i - 1)
                                   \o << low_bits(r2[i], 64 - clear_bits) >>
                                   \o SubSeq(r2, i + 1, Len(m))
                 IN IF m[i] # U64_ZERO THEN cleared
                    ELSE clear_excess(m, cleared, i + 1)

\* R^2 mod m
r2_mod_m(W, wc, m, m_inv) ==
    LET LOG2_DOUBLES == 5
    IN clear_excess(m,
          squares_loop(W, wc, m, m_inv, log_bits(wc) - LOG2_DOUBLES,
                       doubles_loop(m, 2 ^ LOG2_DOUBLES, r_mod_m(W, wc, m))),
          1)

\* One turn of the exponentiation loop, on the state [tr, ar, exp].
expmod_step(W, wc, m, m_inv, s) ==
    LET odd == s.exp[2] % 2 = 1
        exp == IF odd THEN U32(s.exp[1], s.exp[2] - 1) ELSE s.exp
    IN [tr |-> IF odd
               THEN mont_reduction(W, wc, m, m_inv, mul_subarr(W, wc, s.tr, s.ar))
               ELSE s.tr,
        ar |-> mont_reduction(W, wc, m, m_inv, sqr_subarr(W, wc, s.ar)),
        exp |-> U32(exp[1] \div 2, (exp[1] % 2) * 32768 + exp[2] \div 2)]

\* The exponentiation loop, while exp != 1: up to n turns of it from s, the
\* first half of the turns, then the rest.
RECURSIVE expmod_loop(_, _, _, _, _, _)
expmod_loop(W, wc, m, m_inv, n, s) ==
    IF s.exp = U32(0, 1) THEN s
    ELSE IF n = 1 THEN expmod_step(W, wc, m, m_inv, s)
    ELSE expmod_loop(W, wc, m, m_inv, n - (n \div 2),
                     expmod_loop(W, wc, m, m_inv, n \div 2, s))

\* A variant of expmod_odd_mod that does not look whether the modulus is
\* even.
expmod_odd_mod_accepts_even(W, base, exp, m) ==
    LET wc == word_count(W, m)
        t == SmallLimbs(W, 1)
    IN IF m = ZeroLimbs(W) THEN [status |-> "Err"]
       ELSE IF slice_greater_than(base, m) THEN [status |-> "Err"]
       ELSE IF m = SmallLimbs(W, 1) THEN [status |-> "Ok", res |-> ZeroLimbs(W)]
       ELSE IF exp = U32(0, 0) THEN [status |-> "Ok", res |-> t]
       ELSE Let(negative_m_inv(W, wc, m), LAMBDA m_inv :
            Let(r2_mod_m(W, wc, m, m_inv), LAMBDA r2 :
            Let(expmod_loop(W, wc, m, m_inv, 32,
                   [tr |-> mont_reduction(W, wc, m, m_inv, mul_subarr(W, wc, r2, t)),
                    ar |-> mont_reduction(W, wc, m, m_inv, mul_subarr(W, wc, r2, base)),
                    exp |-> exp]),
                LAMBDA last :
            Let(mont_reduction(W, wc, m, m_inv, mul_subarr(W, wc, last.ar, last.tr)),
                LAMBDA ar :
            [status |-> "Ok",
             res |-> mont_reduction(W, wc, m, m_inv, ZeroLimbs(W) \o ar)]))))

\* U4096::expmod_odd_mod(&self, exp, m): base ^ exp mod m, base being self.
expmod_odd_mod(W, base, exp, m) ==
    LET wc == word_count(W, m)
        t == SmallLimbs(W, 1)
    IN IF m = ZeroLimbs(W) THEN [status |-> "Err"]
       ELSE IF m[W][8] % 2 = 0 THEN [status |-> "Err"]
       ELSE IF slice_greater_than(base, m) THEN [status |-> "Err"]
       ELSE IF m = SmallLimbs(W, 1) THEN [status |-> "Ok", res |-> ZeroLimbs(W)]
       ELSE IF exp = U32(0, 0) THEN [status |-> "Ok", res |-> t]
       ELSE Let(negative_m_inv(W, wc, m), LAMBDA m_inv :
            Let(r2_mod_m(W, wc, m, m_inv), LAMBDA r2 :
            Let(expmod_loop(W, wc, m, m_inv, 32,
                   [tr |-> mont_reduction(W, wc, m, m_inv, mul_subarr(W, wc, r2, t)),
                    ar |-> mont_reduction(W, wc, m, m_inv, mul_subarr(W, wc, r2, base)),
                    exp |-> exp]),
                LAMBDA last :
            Let(mont_reduction(W, wc, m, m_inv, mul_subarr(W, wc, last.ar, last.tr)),
                LAMBDA ar :
            [status |-> "Ok",
             res |-> mont_reduction(W, wc, m, m_inv, ZeroLimbs(W) \o ar)]))))

(***************************************************************************)
(* Montgomery reduction for the prime fields                               *)
(***************************************************************************)
\* u256_mont_reduction_given_prime (len 4) and
\* u384_mont_reduction_given_prime (len 6): t = (mu + v * prime) / R with
\* v = (mu mod R) * negative_prime_inv_mod_r mod R; prime is subtracted
\* when the sum carried out or t is greater than prime.
mont_reduction_given_prime(len, mu, prime, negative_prime_inv_mod_r) ==
    IF Len(mu) # 2 * len THEN << >>
    ELSE LET mu_mod_r == const_subarr(mu, len, len)
         IN Let(ZeroLimbs(len)
                   \o const_subarr(mul_N(len, mu_mod_r, negative_prime_inv_mod_r),
                                   len, len),
                LAMBDA v :
            Let(mul_N(len, const_subarr(v, len, len), prime), LAMBDA t0 :
            Let(add(t0, mu), LAMBDA t1 :
            Let(const_subarr(t1[1], 0, len), LAMBDA t1_on_r :
            IF t1[2] \/ slice_greater_than(t1_on_r, prime)
            THEN sub(t1_on_r, prime)[1]
            ELSE t1_on_r))))

\* fuzz_moduli::P256 and fuzz_moduli::P384
P256_PRIME ==
    << << 255, 255, 255, 255, 0, 0, 0, 1 >>,
       << 0, 0, 0, 0, 0, 0, 0, 0 >>,
       << 0, 0, 0, 0, 255, 255, 255, 255 >>,
       << 255, 255, 255, 255, 255, 255, 255, 255 >> >>

P256_NEGATIVE_PRIME_INV_MOD_R ==
    << << 255, 255, 255, 255, 0, 0, 0, 2 >>,
       << 0, 0, 0, 0, 0, 0, 0, 0 >>,
       << 0, 0, 0, 1, 0, 0, 0, 0 >>,
       << 0, 0, 0, 0, 0, 0, 0, 1 >> >>

P384_PRIME ==
    << << 255, 255, 255, 255, 255, 255, 255, 255 >>,
       << 255, 255, 255, 255, 255, 255, 255, 255 >>,
       << 255, 255, 255, 255, 255, 255, 255, 255 >>,
       << 255, 255, 255, 255, 255, 255, 255, 254 >>,
       << 255, 255, 255, 255, 0, 0, 0, 0 >>,
       << 0, 0, 0, 0, 255, 255, 255, 255 >> >>

P384_NEGATIVE_PRIME_INV_MOD_R ==
    << << 0, 0, 0, 20, 0, 0, 0, 20 >>,
       << 0, 0, 0, 12, 0, 0, 0, 2 >>,
       << 255, 255, 255, 252, 255, 255, 255, 250 >>,
       << 255, 255, 255, 251, 255, 255, 255, 254 >>,
       << 0, 0, 0, 0, 0, 0, 0, 1 >>,
       << 0, 0, 0, 1, 0, 0, 0, 1 >> >>

(***************************************************************************)
(* Calls of the big-integer functions                                      *)
(***************************************************************************)
\* Limbs at the edges of u64: 0, 1, 2, 3, 2^63, 2^64 - 2, 2^64 - 1, and one
\* with every byte different.
U64_TOP == << 128 >> \o Zeros(7)
U64_MAX_LESS_1 == Bytes(7) \o << 254 >>
U64_MIXED == << 1, 35, 69, 103, 137, 171, 205, 239 >>

EdgeLimbs == { U64_ZERO, U64_ONE, as_u64(2), as_u64(3), U64_TOP, U64_MAX_LESS_1,
               U64_MAX, U64_MIXED }

\* An array of len limbs whose high half is filled with hi and whose low
\* half is filled with lo, the last limb being last.
Halves(len, hi, lo, last) ==
    [i \in 1..len |-> IF i = len THEN last
                      ELSE IF i <= len \div 2 THEN hi ELSE lo]

\* The len-limb arrays given to the functions: zero, one, all ones, a high
\* half above, below and equal to the low half, halves whose products
\* carry into the middle term, and mixed limbs.
Arrays(len) ==
    { Halves(len, U64_ZERO, U64_ZERO, U64_ZERO),
      Halves(len, U64_MAX, as_u64(2), U64_ZERO),
      Halves(len, as_u64(2), U64_MAX, U64_MAX),
      Halves(len, U64_ZERO, U64_ZERO, U64_ONE),
      Halves(len, U64_ZERO, U64_ZERO, as_u64(3)),
      Halves(len, U64_MAX, U64_MAX, U64_MAX),
      Halves(len, U64_MAX, U64_ZERO, U64_ZERO),
      Halves(len, U64_ZERO, U64_MAX, U64_MAX),
      Halves(len, U64_MAX, U64_MAX, U64_MAX_LESS_1),
      Halves(len, U64_TOP, U64_MIXED, as_u64(2)),
      Halves(len, U64_MIXED, U64_TOP, U64_MIXED),
      [i \in 1..len |-> IF i % 2 = 1 THEN U64_MAX ELSE U64_ZERO],
      [i \in 1..len |-> << i, 255 - i, 17 * i, 255, 0, i * i, 128, 127 + i >>] }

\* Every array of two edge limbs.
EdgePairs == { << x, y >> : x \in EdgeLimbs, y \in EdgeLimbs }

\* The lengths mul_N is called with, and the inputs per length: mul_2 and
\* mul_3, and three levels of define_mul! above them (mul_32 and mul_64 are
\* two more levels of the same macro).
MulLens == {2, 3, 4, 6, 8, 16}

MulInputs(len) == IF len = 2 THEN EdgePairs ELSE Arrays(len)

\* The lengths div_rem_N is called with.
DivLens == {2, 4}

InitBig ==
    /\ BuilderInit
    /\ sent = << build_query("a.", TYPE_A) >>
    /\ clone = NoClone
    /\ codec = NoCodec
    /\ qbuf = NoBuf
    /\ handle = NoHandle
    /\ \/ \E len \in MulLens : \E a \in MulInputs(len), b \in MulInputs(len) :
             big = [op |-> "mul", len |-> len, a |-> a, b |-> b, status |-> "Called"]
       \/ \E len \in DivLens : \E a \in Arrays(len), b \in Arrays(len) :
             big = [op |-> "div_rem", len |-> len, a |-> a, b |-> b,
                    status |-> "Called"]

\* mul_N(&a, &b)
Mul ==
    /\ big.op = "mul"
    /\ big.status = "Called"
    /\ big' = [big EXCEPT !.status = "Done"]
                 @@ [res |-> mul_N(big.len, big.a, big.b)]
    /\ UNCHANGED << builder, clone, codec, qbuf, handle >>

\* div_rem_N(&a, &b)
DivRem ==
    /\ big.op = "div_rem"
    /\ big.status = "Called"
    /\ \E out \in {div_rem(big.len, big.a, big.b)} :
          big' = [op |-> big.op, len |-> big.len, a |-> big.a, b |-> big.b]
                    @@ out
    /\ UNCHANGED << builder, clone, codec, qbuf, handle >>

NextBig == Mul \/ DivRem

SpecBig == InitBig /\ [][NextBig]_vars

\* The lengths mod_inv_N is called with.
InvLens == {2, 4}

InitInv ==
    /\ BuilderInit
    /\ sent = << build_query("a.", TYPE_A) >>
    /\ clone = NoClone
    /\ codec = NoCodec
    /\ qbuf = NoBuf
    /\ handle = NoHandle
    /\ \E len \in InvLens : \E a \in Arrays(len), m \in Arrays(len) :
          big = [op |-> "mod_inv", len |-> len, a |-> a, m |-> m]

\* mod_inv_N(&a, &m)
ModInv ==
    /\ big.op = "mod_inv"
    /\ "status" \notin DOMAIN big
    /\ \E out \in {mod_inv(big.len, big.a, big.m)} : big' = big @@ out
    /\ UNCHANGED << builder, clone, codec, qbuf, handle >>

NextInv == ModInv

SpecInv == InitInv /\ [][NextInv]_vars

\* The number of limbs of the integers expmod_odd_mod is called with: its
\* width profiles are then 2, 4 and 8 limbs, the lengths of mul_2, mul_4 and
\* mul_8.
ExpWords == 8

\* len limbs that are zero but for the top bit and the lowest bit: 2^(64 * len - 1) + 1.
TopAndOne(len) ==
    [i \in 1..len |-> IF i = 1 THEN (IF len = 1 THEN << 128 >> \o Zeros(6) \o << 1 >>
                                     ELSE U64_TOP)
                      ELSE IF i = len THEN U64_ONE ELSE U64_ZERO]

\* An integer of the low len limbs, as an array of ExpWords limbs.
Wide(low) == ZeroLimbs(ExpWords - Len(low)) \o low

\* The odd moduli above one: for each profile, all ones, the top and the
\* lowest bit, and mixed limbs; and the small 3.
OddModuli ==
    { SmallLimbs(ExpWords, 3) }
       \cup { Wide([i \in 1..len |-> U64_MAX]) : len \in {2, 4, 8} }
       \cup { Wide(TopAndOne(len)) : len \in {2, 4, 8} }
       \cup { Wide(Halves(len, U64_MIXED, U64_TOP, U64_MIXED)) : len \in {2, 4} }

\* The moduli expmod_odd_mod refuses, and the modulus one.
EdgeModuli ==
    { ZeroLimbs(ExpWords), SmallLimbs(ExpWords, 1), SmallLimbs(ExpWords, 2),
      Wide(Halves(8, U64_MAX, U64_MAX, U64_MAX_LESS_1)),
      Wide(Halves(2, U64_MAX, U64_MAX, U64_MAX_LESS_1)) }

\* The bases tried with the modulus m: 0, 1, 2, m - 1, m and m + 1.
ExpBases(m) ==
    { ZeroLimbs(ExpWords), SmallLimbs(ExpWords, 1), SmallLimbs(ExpWords, 2),
      sub(m, SmallLimbs(ExpWords, 1))[1], m, add_u64(m, U64_ONE)[1] }

\* The exponents tried: 0, 1, 3, 65537, 2^31 and 2^32 - 1.
ShortExponents == { U32(0, 0), U32(0, 1), U32(0, 3) }
LongExponents == { U32(1, 1), U32(32768, 0), U32_MAX }

\* The calls made: every edge modulus with every base and the exponents 0
\* and 3; every odd modulus with every base and the exponent 3; in the
\* narrowest profile the other short exponents too; and the long exponents
\* with the base 2, and in the narrowest profile with m - 1.
ExpCalls ==
    { c \in [base : UNION { ExpBases(m) : m \in OddModuli \cup EdgeModuli },
             exp : ShortExponents \cup LongExponents,
             m : OddModuli \cup EdgeModuli] :
        /\ c.base \in ExpBases(c.m)
        /\ \/ c.m \in EdgeModuli /\ c.exp \in { U32(0, 0), U32(0, 3) }
           \/ c.m \in OddModuli /\ c.exp = U32(0, 3)
           \/ /\ c.m \in OddModuli
              /\ word_count(ExpWords, c.m) = ExpWords \div 4
              /\ \/ c.exp \in ShortExponents
                 \/ c.base = sub(c.m, SmallLimbs(ExpWords, 1))[1]
           \/ /\ c.m \in OddModuli
              /\ c.base = SmallLimbs(ExpWords, 2)
              /\ c.exp \in LongExponents
              /\ word_count(ExpWords, c.m) = ExpWords => c.exp = U32(1, 1) }

InitExp ==
    /\ BuilderInit
    /\ sent = << build_query("a.", TYPE_A) >>
    /\ clone = NoClone
    /\ codec = NoCodec
    /\ qbuf = NoBuf
    /\ handle = NoHandle
    /\ \E c \in ExpCalls :
          big = [op |-> "expmod", base |-> c.base, exp |-> c.exp, m |-> c.m]

\* base.expmod_odd_mod(exp, &m)
Expmod ==
    /\ big.op = "expmod"
    /\ "status" \notin DOMAIN big
    /\ \E out \in {expmod_odd_mod(ExpWords, big.base, big.exp, big.m)} :
          big' = big @@ out
    /\ UNCHANGED << builder, clone, codec, qbuf, handle >>

NextExp == Expmod

SpecExp == InitExp /\ [][NextExp]_vars

\* The residues multiplied to make an input of a reduction modulo p: 1, 2,
\* mixed limbs below p, and p - 1.
Residues(len, p) ==
    { Halves(len, U64_ZERO, U64_ZERO, U64_ONE),
      Halves(len, U64_ZERO, U64_ZERO, as_u64(2)),
      Halves(len, U64_MIXED, U64_TOP, U64_MIXED),
      sub(p, Halves(len, U64_ZERO, U64_ZERO, U64_ONE))[1] }

\* The inputs mu < p * R of a prime-field reduction: the arrays below R,
\* the products of two residues, and multiples of p.
PrimeInputs(len, p) ==
    { ZeroLimbs(len) \o x : x \in Arrays(len) \cup {p} }
       \cup { mul_N(len, x, y) : x \in Residues(len, p), y \in Residues(len, p) }
       \cup { mul_N(len, p, k) : k \in { Halves(len, U64_ZERO, U64_ZERO, as_u64(3)),
                                         Halves(len, U64_MAX, U64_MAX, U64_MAX) } }

\* The RSA moduli reduced by: 3, and one modulus of each width profile.
RsaModuli ==
    { SmallLimbs(ExpWords, 3),
      Wide(Halves(2, U64_MIXED, U64_TOP, U64_MIXED)),
      Wide([i \in 1..4 |-> U64_MAX]),
      Wide(TopAndOne(8)) }

\* The inputs mu < m * R of the closure for the modulus m: residues and m
\* itself, the products of two residues, and a multiple of m.
RsaInputs(m) ==
    LET wc == word_count(ExpWords, m)
        some == { SmallLimbs(ExpWords, 1), SmallLimbs(ExpWords, 2),
                  sub(m, SmallLimbs(ExpWords, 1))[1] }
    IN { ZeroLimbs(ExpWords) \o x : x \in some \cup {m} }
          \cup { mul_subarr(ExpWords, wc, x, y) : x \in some, y \in some }
          \cup { mul_subarr(ExpWords, wc, m, SmallLimbs(ExpWords, 3)) }

InitMont ==
    /\ BuilderInit
    /\ sent = << build_query("a.", TYPE_A) >>
    /\ clone = NoClone
    /\ codec = NoCodec
    /\ qbuf = NoBuf
    /\ handle = NoHandle
    /\ \/ \E mu \in PrimeInputs(4, P256_PRIME) :
             big = [op |-> "u256_mont_reduction", prime |-> P256_PRIME, mu |-> mu]
       \/ \E mu \in PrimeInputs(6, P384_PRIME) :
             big = [op |-> "u384_mont_reduction", prime |-> P384_PRIME, mu |-> mu]
       \/ \E m \in RsaModuli : \E mu \in RsaInputs(m) :
             big = [op |-> "rsa_mont_reduction", prime |-> m, mu |-> mu]

\* U256Mod::<P256>::mont_reduction(mu)
MontReduction256 ==
    /\ big.op = "u256_mont_reduction"
    /\ "res" \notin DOMAIN big
    /\ \E out \in {mont_reduction_given_prime(4, big.mu, big.prime,
                                              P256_NEGATIVE_PRIME_INV_MOD_R)} :
          big' = big @@ [res |-> out]
    /\ UNCHANGED << builder, clone, codec, qbuf, handle >>

\* U384Mod::<P384>::mont_reduction(mu)
MontReduction384 ==
    /\ big.op = "u384_mont_reduction"
    /\ "res" \notin DOMAIN big
    /\ \E out \in {mont_reduction_given_prime(6, big.mu, big.prime,
                                              P384_NEGATIVE_PRIME_INV_MOD_R)} :
          big' = big @@ [res |-> out]
    /\ UNCHANGED << builder, clone, codec, qbuf, handle >>

\* mont_reduction(mu) in expmod_odd_mod with the modulus big.prime
MontReductionRsa ==
    /\ big.op = "rsa_mont_reduction"
    /\ "res" \notin DOMAIN big
    /\ \E wc \in {word_count(ExpWords, big.prime)} :
       \E out \in {mont_reduction(ExpWords, wc, big.prime,
                                  negative_m_inv(ExpWords, wc, big.prime), big.mu)} :
          big' = big @@ [res |-> out]
    /\ UNCHANGED << builder, clone, codec, qbuf, handle >>

NextMont == MontReduction256 \/ MontReduction384 \/ MontReductionRsa

SpecMont == InitMont /\ [][NextMont]_vars

(***************************************************************************)
(* Properties                                                              *)
(***************************************************************************)
ProcessReturned == ret.op = "process_response"
FinishReturned == ret.op = "finish_proof"

\* C1 (as stated): in every reachable state the total-query counter is at
\* most max_steps = 20.
C1_TotalNeverExceedsMaxSteps ==
    queries_made <= MAX_PROOF_STEPS

\* C1 (amended): the total-query counter is not capped at max_steps.  It is
\* at least 1 and at most 1 + 2 * (number of names in dnskeys_requested),
\* and it is at most max_steps in every state in which the builder awaits
\* responses or finish_proof succeeds.
C1_TotalBoundedByNames ==
    /\ queries_made >= 1
    /\ queries_made <= 1 + 2 * Len(dnskeys_requested)
    /\ (awaiting_responses(self) \/ finish_proof(self).ok)
          => queries_made <= MAX_PROOF_STEPS

\* The total has passed max_steps after a response.
C1_Witness ==
    ProcessReturned /\ ret.status = "Ok" /\ queries_made > MAX_PROOF_STEPS

\* C2: awaiting_responses() is true iff pending > 0 and total <= max_steps;
\* finish_proof succeeds iff pending = 0 and total <= max_steps, and then
\* returns exactly the accumulated proof and min_ttl; the two never hold
\* together, and both are false only when total > max_steps.
C2_AwaitingAndFinish ==
    /\ awaiting_responses(self)
          <=> (pending_queries > 0 /\ queries_made <= MAX_PROOF_STEPS)
    /\ finish_proof(self).ok
          <=> (pending_queries = 0 /\ queries_made <= MAX_PROOF_STEPS)
    /\ FinishReturned =>
          /\ (ret.status = "Ok")
                <=> (pending_queries = 0 /\ queries_made <= MAX_PROOF_STEPS)
          /\ ret.status = "Ok" => (ret.proof = proof /\ ret.ttl = min_ttl)
    /\ ~(awaiting_responses(self) /\ finish_proof(self).ok)
    /\ (~awaiting_responses(self) /\ ~finish_proof(self).ok)
          => queries_made > MAX_PROOF_STEPS

\* finish_proof has returned a non-empty proof after a query round.
C2_Witness ==
    /\ FinishReturned /\ ret.status = "Ok"
    /\ Len(ret.proof) > 2 /\ ret.ttl # U32_MAX /\ calls = MaxCalls

\* C3: the queries handed to the caller over the builder's lifetime (the
\* initial query and every query process_response returned) number at most
\* MAX_PROOF_STEPS = 20.
C3_QueriesHandedOutWithinBudget ==
    Len(sent) <= MAX_PROOF_STEPS

\* Exactly MAX_PROOF_STEPS queries have been handed out.
C3_Witness ==
    Len(sent) = MAX_PROOF_STEPS /\ ProcessReturned /\ Len(ret.queries) > 0

\* What holds of a builder whose total is above max_steps.
C4_Exhausted ==
    queries_made > MAX_PROOF_STEPS =>
        /\ ProcessReturned => ret.queries = << >>
        /\ FinishReturned => ret.status = "Err"
        /\ ~awaiting_responses(self)
        /\ ~finish_proof(self).ok

\* C4: budget exhaustion is permanent: once total > max_steps after a
\* response, that call and every later call hand out no query (they return
\* an empty list or an error), awaiting_responses() is false and stays
\* false, and finish_proof fails from then on.
C4_ExhaustionIsPermanent ==
    /\ []C4_Exhausted
    /\ [][queries_made > MAX_PROOF_STEPS => queries_made' > MAX_PROOF_STEPS]_vars

\* A response processed successfully by a builder already out of budget.
C4_Witness ==
    /\ queries_made > MAX_PROOF_STEPS /\ ProcessReturned /\ ret.status = "Ok"
    /\ resp = PlainAnswer /\ calls > 1

(***************************************************************************)
(* Reading a response for the properties below: the header fields by       *)
(* arithmetic on the header bytes, the sections by position.               *)
(***************************************************************************)
\* The k-th 16-bit word of the header.
Word(r, k) == r.hdr[2 * k - 1] * 256 + r.hdr[2 * k]
HasFlags(r) == Len(r.hdr) >= 4
QR(r) == (Word(r, 2) \div 32768) % 2
Opcode(r) == (Word(r, 2) \div 2048) % 16
TC(r) == (Word(r, 2) \div 512) % 2
AD(r) == (Word(r, 2) \div 32) % 2
Rcode(r) == Word(r, 2) % 16

\* txid 0 and the QR bit set.
WellAddressed(r) == HasFlags(r) /\ Word(r, 1) = 0 /\ QR(r) = 1

\* A process_response call is being made in this step.
Stepped == calls' = calls + 1

Less(a, b) == a[1] < b[1] \/ (a[1] = b[1] /\ a[2] < b[2])

IsSig(e) == e.ty = TYPE_RRSig

ADClear(r) ==
    /\ WellAddressed(r)
    /\ Opcode(r) = 0 /\ TC(r) = 0 /\ Rcode(r) = 0
    /\ AD(r) = 0

\* The status such a response gets, as the claim has it.
C6_ClearADReturnsUnauthenticated ==
    (ProcessReturned /\ ADClear(resp)) => ret.status = "Unauthenticated"

\* C6 (as stated): a response with the AD flag clear (txid 0, QR set,
\* opcode, TC and RCODE zero) makes process_response return Unauthenticated
\* whatever its section counts and body, and nothing of it is appended to
\* the proof.
C6_ClearADAlwaysUnauthenticated ==
    /\ []C6_ClearADReturnsUnauthenticated
    /\ [][(Stepped /\ ADClear(resp')) => proof' = proof]_vars

\* C6 (amended): given while a response is pending (pending > 0), such a
\* response makes process_response return Unauthenticated whatever its
\* section counts and body; given when pending = 0 it returns
\* NoResponseExpected; in both cases nothing is appended to the proof.
C6_ClearADWhilePending ==
    [][(Stepped /\ ADClear(resp')) =>
          /\ proof' = proof
          /\ ret'.status = IF pending_queries > 0 THEN "Unauthenticated"
                           ELSE "NoResponseExpected"]_vars

\* A four-byte response with AD clear was refused as Unauthenticated by a
\* builder that already holds records.
C6_Witness ==
    /\ ProcessReturned /\ ADClear(resp) /\ ret.status = "Unauthenticated"
    /\ Len(resp.hdr) = 4 /\ proof # << >>

\* txid 0, QR set, RCODE 3.
IsNxDomain(r) == WellAddressed(r) /\ Rcode(r) = 3

\* C7 (as stated): an NXDOMAIN response is surfaced as NoSuchName iff it is
\* the very first response ever passed to the builder; passed after any
\* earlier response, failed or not, it yields MissingRecord.
C7_NoSuchNameOnlyOnFirstResponse ==
    (ProcessReturned /\ IsNxDomain(resp)) =>
        ret.status = IF calls = 1 THEN "NoSuchName" ELSE "MissingRecord"

\* C7 (amended): an NXDOMAIN response given while a response is pending is
\* surfaced as NoSuchName iff the proof accumulator is empty at that call:
\* that is the first response, and also an NXDOMAIN that follows only
\* responses that failed before any record was written.  Once a record has
\* been written (by a response that succeeded, or by one that failed part
\* way) it yields MissingRecord; with pending = 0, NoResponseExpected.
C7_NoSuchNameWhileProofEmpty ==
    [][(Stepped /\ IsNxDomain(resp')) =>
          ret'.status = IF pending_queries = 0 THEN "NoResponseExpected"
                        ELSE IF proof = << >> THEN "NoSuchName"
                        ELSE "MissingRecord"]_vars

\* An NXDOMAIN that was not the first response was surfaced as NoSuchName.
C7_Witness ==
    ProcessReturned /\ IsNxDomain(resp) /\ calls > 1 /\ ret.status = "NoSuchName"

\* A flags word with a non-zero opcode or the TC bit.
BadOpcodeOrTC(r) == HasFlags(r) /\ (Opcode(r) # 0 \/ TC(r) = 1)

\* C8 (as stated): every response with a non-zero opcode or with the TC bit
\* set is rejected with InvalidResponse, even when its RCODE is 1, 2 or 3.
C8_BadHeaderAlwaysInvalidResponse ==
    (ProcessReturned /\ BadOpcodeOrTC(resp)) => ret.status = "InvalidResponse"

\* C8 (amended): a response with a non-zero opcode or the TC bit set is
\* never accepted and leaves the proof as it was, but the RCODE is read
\* before opcode and TC are checked: with txid 0 and QR set, given while a
\* response is pending, it yields ServerFailure for RCODE 1 or 2,
\* MissingRecord (NoSuchName while the proof is empty) for RCODE 3 and
\* InvalidResponse for every other RCODE; with a non-zero txid or QR clear
\* it yields InvalidResponse; with pending = 0, NoResponseExpected.
C8_RcodeReadBeforeOpcodeAndTC ==
    [][(Stepped /\ BadOpcodeOrTC(resp')) =>
          /\ proof' = proof
          /\ ret'.status =
                IF pending_queries = 0 THEN "NoResponseExpected"
                ELSE IF ~WellAddressed(resp') THEN "InvalidResponse"
                ELSE IF Rcode(resp') \in {1, 2} THEN "ServerFailure"
                ELSE IF Rcode(resp') = 3
                     THEN (IF proof = << >> THEN "NoSuchName" ELSE "MissingRecord")
                ELSE "InvalidResponse"]_vars

\* A truncated (TC) response with RCODE 1 came back as ServerFailure.
C8_Witness ==
    /\ ProcessReturned /\ BadOpcodeOrTC(resp) /\ TC(resp) = 1
    /\ ret.status = "ServerFailure"

\* The sections of a response with a full header, by position: the first
\* ANCOUNT records, the next NSCOUNT records, and whatever follows.
Answers(r) == SubSeq(r.rrs, 1, Word(r, 4))
Authorities(r) == SubSeq(r.rrs, Word(r, 4) + 1, Word(r, 4) + Word(r, 5))
Additional(r) == SubSeq(r.rrs, Word(r, 4) + Word(r, 5) + 1, Len(r.rrs))

\* NSEC, NSEC3, and RRSIGs whose type covered is NSEC or NSEC3.
DenialRecord(w) ==
    \/ w.ty \in {TYPE_NSec, TYPE_NSec3}
    \/ w.ty = TYPE_RRSig /\ w.covered \in {TYPE_NSec, TYPE_NSec3}

\* What a successful response adds to the proof: its answers, then the
\* denial records of its authority section.
Included(r) == Answers(r) \o SelectSeq(Authorities(r), DenialRecord)

ProofEntry(w) ==
    [name |-> w.name, ty |-> w.ty, class |-> 1, ttl |-> w.ttl,
     covered |-> w.covered, key_name |-> w.key_name]

SignersOf(rrs) == { rrs[i].key_name : i \in { j \in 1..Len(rrs) : IsSig(rrs[j]) } }

\* C9: after a successful process_response the proof has grown by exactly
\* the answer records followed by the authority records that are NSEC,
\* NSEC3 or RRSIGs covering NSEC/NSEC3; min_ttl is the minimum of its old
\* value and the TTLs of exactly those records; every name newly requested
\* and every query returned is for the signer of an RRSIG among them.  So a
\* skipped authority record contributes no bytes, no TTL and no signer
\* name, and the additional section contributes nothing.
C9_OnlyDenialRecordsFromAuthority ==
    [][(Stepped /\ ret'.status = "Ok") =>
          LET inc == Included(resp') IN
          /\ proof' = proof \o [i \in 1..Len(inc) |-> ProofEntry(inc[i])]
          /\ \/ min_ttl' = min_ttl
             \/ \E i \in 1..Len(inc) : min_ttl' = inc[i].ttl
          /\ ~Less(min_ttl, min_ttl')
          /\ \A i \in 1..Len(inc) : ~Less(inc[i].ttl, min_ttl')
          /\ Range(dnskeys_requested') \ Range(dnskeys_requested) \subseteq SignersOf(inc)
          /\ \A k \in 1..Len(ret'.queries) : ret'.queries[k].qname \in SignersOf(inc)
    ]_vars

\* A response whose authority and additional sections hold records with a
\* lower TTL and other signers than the records kept was processed.
C9_Witness ==
    /\ ProcessReturned /\ ret.status = "Ok" /\ resp = WithAuthority
    /\ \E i \in 1..Len(Authorities(resp)) :
          /\ ~DenialRecord(Authorities(resp)[i])
          /\ Less(Authorities(resp)[i].ttl, min_ttl)
          /\ IsSig(Authorities(resp)[i])
          /\ Authorities(resp)[i].key_name \notin Range(dnskeys_requested)
    /\ \E i \in 1..Len(Additional(resp)) :
          /\ DenialRecord(Additional(resp)[i])
          /\ Less(Additional(resp)[i].ttl, min_ttl)
          /\ Additional(resp)[i].key_name \notin Range(dnskeys_requested)

\* A record whose owner name, class and RDATA are well formed.
WellFormed(w) == w.class = 1 /\ w.ok

\* A response that is valid but for the types of its authority records: a
\* full header with txid 0, QR and AD set, opcode, TC and RCODE zero, one
\* question, at least one answer; every announced record present; every
\* answer of a supported type and well formed; every authority record well
\* formed.
OtherwiseValid(r) ==
    /\ Len(r.hdr) = 12
    /\ WellAddressed(r) /\ Opcode(r) = 0 /\ TC(r) = 0 /\ Rcode(r) = 0 /\ AD(r) = 1
    /\ Word(r, 3) = 1 /\ Word(r, 4) >= 1
    /\ Len(r.question) >= 1 /\ r.question[1].ok
    /\ Len(r.rrs) >= Word(r, 4) + Word(r, 5)
    /\ \A i \in 1..Len(Answers(r)) :
          WellFormed(Answers(r)[i]) /\ Answers(r)[i].ty \in KnownTypes
    /\ \A i \in 1..Len(Authorities(r)) : WellFormed(Authorities(r)[i])

\* C10 (as stated): authority records that are not NSEC, NSEC3 or RRSIGs
\* over them are discarded whatever their type: an otherwise valid response
\* is processed successfully with such records in its authority section.
C10_AnyAuthorityTypeIsDiscarded ==
    (ProcessReturned /\ OtherwiseValid(resp)) => ret.status = "Ok"

\* C10 (amended): authority records of a supported type (A, AAAA, NS,
\* CNAME, DNAME, TXT, TLSA, DNSKEY, DS, RRSIG) that are not NSEC, NSEC3 or
\* RRSIGs over them are discarded and the response, given while a response
\* is pending, is processed successfully; an authority record of any other
\* type (SOA, for one) fails to parse and makes the response an
\* InvalidResponse.  With pending = 0 the result is NoResponseExpected.
C10_SupportedAuthorityTypesAreDiscarded ==
    [][(Stepped /\ OtherwiseValid(resp')) =>
          ret'.status =
              IF pending_queries = 0 THEN "NoResponseExpected"
              ELSE IF \A i \in 1..Len(Authorities(resp')) :
                          Authorities(resp')[i].ty \in KnownTypes
                   THEN "Ok"
              ELSE "InvalidResponse"]_vars

\* A response with NS and RRSIG-over-NS records in its authority section
\* was processed successfully.
C10_Witness ==
    /\ ProcessReturned /\ ret.status = "Ok" /\ OtherwiseValid(resp)
    /\ \E i \in 1..Len(Authorities(resp)) : Authorities(resp)[i].ty = TYPE_NS
    /\ \E i \in 1..Len(Authorities(resp)) :
          IsSig(Authorities(resp)[i]) /\ Authorities(resp)[i].covered = TYPE_NS

\* The number of positions of a sequence of queries asking (n, ty).
Asked(qs, n, ty) ==
    Cardinality({ k \in 1..Len(qs) : qs[k].qname = n /\ qs[k].qtype = ty })

NoDuplicates(s) == \A i, j \in 1..Len(s) : s[i] = s[j] => i = j

\* What C11 says of one successful call that leaves the total within
\* max_steps, for `new` the signer names it is to ask about.
QueriesAreFor(new, qs) ==
    /\ \A n \in new : Asked(qs, n, TYPE_DnsKey) = 1
    /\ \A n \in new : Asked(qs, n, TYPE_DS) = IF n = "." THEN 0 ELSE 1
    /\ \A k \in 1..Len(qs) :
          /\ qs[k].qname \in new
          /\ qs[k].qtype \in {TYPE_DnsKey, TYPE_DS}
          /\ qs[k].txid = 0 /\ qs[k].qclass = 1 /\ qs[k].qd = 1

\* C11 (as stated): while total <= max_steps, each successful
\* process_response returns, for every distinct signer name of an RRSIG in
\* the response that is not yet in dnskeys_requested, exactly one DNSKEY
\* query and (unless the name is the root) exactly one DS query, and
\* nothing else; no name is added to dnskeys_requested twice and no
\* (name, DNSKEY) or (name, DS) query is issued twice over the lifetime.
C11_QueriesForEverySignerInResponse ==
    /\ [][(Stepped /\ ret'.status = "Ok" /\ queries_made' <= MAX_PROOF_STEPS) =>
             QueriesAreFor(SignersOf(resp'.rrs) \ Range(dnskeys_requested),
                           ret'.queries)]_vars
    /\ [](NoDuplicates(dnskeys_requested) /\ NoDuplicates(sent))

\* C11 (amended): each successful process_response that leaves total <=
\* max_steps returns, for every distinct signer name of an RRSIG among the
\* records it keeps (the answers and the NSEC/NSEC3 RRSIGs of the authority
\* section; not the skipped authority records, not the additional section)
\* that is not yet in dnskeys_requested, exactly one DNSKEY query and,
\* unless the name is the root, exactly one DS query, and nothing else;
\* exactly those names are added to dnskeys_requested (whatever the total).
\* No name is added to dnskeys_requested twice and no query is returned by
\* process_response twice; the initial query of new() is not taken into
\* account, so a builder made for (n, DNSKEY) asks (n, DNSKEY) again when
\* n signs a record.
C11_QueriesForEveryCollectedSigner ==
    /\ [][(Stepped /\ ret'.status = "Ok") =>
             LET new == SignersOf(Included(resp')) \ Range(dnskeys_requested) IN
             /\ queries_made' <= MAX_PROOF_STEPS => QueriesAreFor(new, ret'.queries)
             /\ Range(dnskeys_requested') = Range(dnskeys_requested) \cup new
             /\ Len(dnskeys_requested') = Len(dnskeys_requested) + Cardinality(new)
          ]_vars
    /\ [](NoDuplicates(dnskeys_requested) /\ NoDuplicates(Tail(sent)))

\* A successful response within the budget brought queries for new signers,
\* the root among them, while another of its signers had been asked before.
C11_Witness ==
    /\ ProcessReturned /\ ret.status = "Ok" /\ queries_made <= MAX_PROOF_STEPS
    /\ Asked(ret.queries, ".", TYPE_DnsKey) = 1
    /\ Len(ret.queries) > 2
    /\ \E n \in SignersOf(Included(resp)) :
          Asked(ret.queries, n, TYPE_DnsKey) = 0 /\ Asked(sent, n, TYPE_DnsKey) = 1

\* C12: when finish_proof succeeds, the TTL it returns is the lowest TTL
\* over all records present in the returned proof (answers and included
\* authority records alike), after any sequence of process_response calls,
\* including calls that returned errors.
C12_TtlIsLowestInProof ==
    (FinishReturned /\ ret.status = "Ok") =>
        /\ \A i \in 1..Len(ret.proof) : ~Less(ret.proof[i].ttl, ret.ttl)
        /\ \E i \in 1..Len(ret.proof) : ret.proof[i].ttl = ret.ttl

\* The fields C13 compares: the two counters, min_ttl and the names
\* requested, as a set.
PoolState(b) ==
    << b.pending_queries, b.queries_made, b.min_ttl, Range(b.dnskeys_requested) >>

\* C13: responses form an unordered pool: from any builder state, for any
\* two responses r1, r2 that are both accepted in either order, processing
\* r1 then r2 leaves the same pending counter, total counter, min_ttl and
\* set of requested DNSKEY names as processing r2 then r1.
C13_ResponsesCommute ==
    (clone.taken /\ clone.accepted) => PoolState(self) = PoolState(clone.b)

\* Two different responses with a signer in common were accepted in both
\* orders by a builder that had already asked for a key: the proofs differ
\* in the order of their records and the names were requested in another
\* order.
C13_Witness ==
    /\ clone.taken /\ clone.accepted
    /\ clone.r1 # clone.r2
    /\ calls = MaxPrefix + 2
    /\ proof # clone.b.proof
    /\ dnskeys_requested # clone.b.dnskeys_requested
    /\ Less(min_ttl, U32(0, 300))
    /\ pending_queries > 2

\* C14: process_response returns NoResponseExpected iff pending = 0 at the
\* time of the call; the check precedes any look at the response (a
\* malformed response too yields NoResponseExpected, not InvalidResponse)
\* and the builder is left unchanged.
C14_NoResponseExpectedIffNonePending ==
    [][Stepped =>
          /\ (ret'.status = "NoResponseExpected") <=> (pending_queries = 0)
          /\ pending_queries = 0 =>
                /\ ret'.queries = << >>
                /\ UNCHANGED << proof, min_ttl, dnskeys_requested,
                                pending_queries, queries_made >>
    ]_vars

\* A response that ends after one byte, given to a builder that holds
\* records and awaits nothing, came back as NoResponseExpected.
C14_Witness ==
    /\ ProcessReturned /\ ret.status = "NoResponseExpected"
    /\ Len(resp.hdr) = 1 /\ proof # << >> /\ pending_queries = 0

\* C15: the wire codec never panics on untrusted input: for every byte
\* string the reader returns Ok or Err; read_nsec_types_bitmap never writes
\* outside its 8192-byte table and never slices past the end of its input,
\* for any window number, block length and input length.
C15_CodecNeverPanics ==
    codec.op # "none" =>
        /\ codec.status \in {"Called", "Ok", "Err"}
        /\ codec.status = "Ok" =>
              \A i \in DOMAIN codec.res : i >= 0 /\ i < NSEC_TABLE_LEN

\* C16: QueryBuf::extend_from_slice never panics: for any current length
\* and any slice, also when the resulting total length would exceed 65535,
\* the call returns, and the stored length saturates at 65535.
C16_ExtendNeverPanics ==
    qbuf.op # "none" =>
        /\ ~qbuf.panicked
        /\ qbuf.q.len = IF Len(qbuf.given) > U16_MAX THEN U16_MAX ELSE Len(qbuf.given)

\* C17: for any initial length L and any appended slices whose total length
\* stays <= 65535, the QueryBuf read as a slice and converted with into_vec
\* both equal L zero bytes followed by the appended slices in order, also
\* when an append crosses the inline threshold.
C17_ContentIsWhatWasAppended ==
    (qbuf.op # "none" /\ Len(qbuf.given) <= U16_MAX) =>
        /\ ~qbuf.panicked
        /\ deref(qbuf.q) = qbuf.given
        /\ into_vec(qbuf.q) = qbuf.given
        /\ qbuf.q.len = Len(qbuf.given)

\* The second append took a buffer holding bytes inline across the inline
\* threshold.
C17_Witness ==
    /\ qbuf.op = "extend_from_slice" /\ qbuf.appends = 2 /\ ~qbuf.panicked
    /\ qbuf.q.len > STACK_BUF_LIMIT
    /\ qbuf.q.buf[1] # 0 /\ qbuf.q.buf[2] = 0
    /\ qbuf.given[1] # 0 /\ qbuf.given[2] # 0

\* The steps of a call that are made holding the mutex.
Holding == {"feed_process", "feed_push", "poll_pop", "finish_clone"}

\* The queue as it is once the call in progress has returned: the queue
\* and the queries the call holding the mutex has still to push.
QueueAtReturn(h) ==
    IF h.lock # 0 /\ h.pc[h.lock].at = "feed_push"
    THEN h.queue \o h.pc[h.lock].queries
    ELSE h.queue

BuilderFields ==
    << proof, min_ttl, dnskeys_requested, pending_queries, queries_made >>

\* Between the calls the pair is consistent, and one thread at most is at
\* work on it.
C18_Serialized ==
    handle.op # "none" =>
        /\ \A t \in Threads : handle.pc[t].at \in Holding <=> handle.lock = t
        /\ handle.enqueued = handle.polled \o handle.queue
        /\ handle.lock = 0 => handle.enqueued = sent
        /\ handle.polled \o QueueAtReturn(handle) = sent

\* Every step is no change of the pair, or one whole call on it: a response
\* processed by the builder together with its queries enqueued, or the
\* oldest query taken from the queue.
C18_WholeCalls ==
    handle.op # "none" =>
        \/ /\ UNCHANGED BuilderFields
           /\ QueueAtReturn(handle') = QueueAtReturn(handle)
           /\ handle'.polled = handle.polled
           /\ \A t \in Threads :
                 (handle.pc[t].at = "poll_pop" /\ handle'.pc[t] = Idle("None"))
                     => QueueAtReturn(handle) = << >>
        \/ \E t \in Threads :
              /\ handle.pc[t].at = "feed_process"
              /\ \E out \in {process_response(self, handle.pc[t].r)} :
                    /\ proof' = out.b.proof
                    /\ min_ttl' = out.b.min_ttl
                    /\ dnskeys_requested' = out.b.dnskeys_requested
                    /\ pending_queries' = out.b.pending_queries
                    /\ queries_made' = out.b.queries_made
                    /\ QueueAtReturn(handle') = QueueAtReturn(handle) \o out.queries
              /\ handle'.polled = handle.polled
        \/ /\ UNCHANGED BuilderFields
           /\ QueueAtReturn(handle) # << >>
           /\ QueueAtReturn(handle') = Tail(QueueAtReturn(handle))
           /\ handle'.polled = Append(handle.polled, Head(QueueAtReturn(handle)))

\* C18: process_query_response, get_next_query and get_unverified_proof
\* each run entirely under the one mutex, so a concurrent execution is a
\* sequence of whole calls: the builder update and the enqueueing of its
\* queries are atomic, and every enqueued query, the initial one first, is
\* returned by exactly one get_next_query call, in FIFO order, never lost
\* or duplicated.
C18_CallsAreAtomicAndFifo ==
    /\ []C18_Serialized
    /\ [][C18_WholeCalls]_vars

\* A thread is half way through pushing the two queries of a response while
\* the other thread waits for the mutex to poll, the initial query having
\* been polled before.
C18_Witness ==
    /\ handle.op # "none"
    /\ handle.lock = 1
    /\ handle.pc[1].at = "feed_push" /\ Len(handle.pc[1].queries) = 1
    /\ Len(handle.enqueued) = 2
    /\ handle.pc[2].at = "poll_lock"
    /\ Len(handle.polled) = 1 /\ handle.queue # << >>

\* The bytes of an array of limbs, most significant first.
Flat(a) == [k \in 1..(8 * Len(a)) |-> a[((k - 1) \div 8) + 1][((k - 1) % 8) + 1]]

MulDone == big.op = "mul" /\ big.status = "Done"

\* C19: for every pair of N-limb inputs, mul_N(a, b) is the exact integer
\* product a*b as a 2N-limb integer with big-endian limbs, whatever the
\* signs of (a_hi - a_lo) and (b_hi - b_lo) in the Karatsuba middle term;
\* mul_2 of two all-ones inputs is [2^64-1, 2^64-2, 0, 1].
C19_MulIsExactProduct ==
    MulDone =>
        /\ Len(big.res) = 2 * big.len
        /\ Flat(big.res) = Product(Flat(big.a), Flat(big.b))
        /\ (big.len = 2 /\ big.a = << U64_MAX, U64_MAX >> /\ big.b = big.a) =>
              big.res = << U64_MAX, U64_MAX_LESS_1, U64_ZERO, U64_ONE >>

\* mul_4 has multiplied an a whose high half is above its low half by a b
\* whose high half is below its low half, and returned their product.
C19_Witness ==
    /\ MulDone
    /\ big.len = 4
    /\ big.a = Halves(4, U64_MAX, U64_ZERO, U64_ZERO)
    /\ big.b = Halves(4, U64_ZERO, U64_MAX, U64_MAX)
    /\ Flat(big.res) = Zeros(16) \o Bytes(15) \o << 254 >> \o Zeros(15) \o << 1 >>
                          \o Zeros(16)

DivReturned == big.op = "div_rem" /\ big.status # "Called"

\* C20: div_rem_N(a, b) fails if and only if b = 0; for every a and every
\* b # 0 it returns (q, r) with a = q*b + r and 0 <= r < b.
C20_DivRemIsEuclidean ==
    DivReturned =>
        /\ big.status \in {"Ok", "Err"}
        /\ big.status = "Err" <=> Flat(big.b) = Zeros(8 * big.len)
        /\ big.status = "Ok" =>
              /\ LET qb == Product(Flat(big.quot), Flat(big.b))
                     r == Zeros(8 * big.len) \o Flat(big.rem)
                 IN Carry([i \in 1..(16 * big.len) |-> qb[i] + r[i]], 0)
                      = Zeros(8 * big.len + 1) \o Flat(big.a)
              /\ u64_greater(Flat(big.b), Flat(big.rem))

\* div_rem_4 has divided 2^256 - 1 by 2^128 - 1, an exact multiple, and
\* returned the quotient 2^128 + 1 with the remainder zero.
C20_Witness ==
    /\ DivReturned
    /\ big.len = 4
    /\ big.a = Halves(4, U64_MAX, U64_MAX, U64_MAX)
    /\ big.b = Halves(4, U64_ZERO, U64_MAX, U64_MAX)
    /\ big.status = "Ok"
    /\ big.quot = << U64_ZERO, U64_ONE, U64_ZERO, U64_ONE >>
    /\ big.rem = Halves(4, U64_ZERO, U64_ZERO, U64_ZERO)

\* The limbs of a string of bytes, most significant first.
Limbs(x) == [i \in 1..(Len(x) \div 8) |-> SubSeq(x, 8 * i - 7, 8 * i)]

\* Up to n steps of Euclid's algorithm on the pair s of len-limb integers.
RECURSIVE Euclid(_, _, _)
Euclid(len, n, s) ==
    IF Flat(s[2]) = Zeros(8 * len) THEN s
    ELSE IF n = 1 THEN << s[2], div_rem(len, s[1], s[2]).rem >>
    ELSE Euclid(len, n - (n \div 2), Euclid(len, n \div 2, s))

\* Whether gcd(a, m) = 1, for len-limb a and m.
Coprime(len, a, m) ==
    Flat(Euclid(len, 128 * len, << a, m >>)[1]) = Zeros(8 * len - 1) \o << 1 >>

\* (a * x) mod m, for len-limb a, x and m.
MulMod(len, a, x, m) ==
    LET ax == Limbs(Product(Flat(a), Flat(x)))
        wide == [i \in 1..(2 * len) |-> IF i <= len THEN U64_ZERO ELSE m[i - len]]
    IN Flat(div_rem(2 * len, ax, wide).rem)

ModInvReturned == big.op = "mod_inv" /\ "status" \in DOMAIN big

\* C21 (as stated): mod_inv_N(a, m) fails exactly when a = 0, m = 0 or
\* gcd(a, m) # 1, and otherwise returns x with 1 <= x < m and
\* (a * x) mod m = 1.
C21_ModInvIsInverse ==
    ModInvReturned =>
        LET zero == Zeros(8 * big.len)
            fails == \/ Flat(big.a) = zero
                     \/ Flat(big.m) = zero
                     \/ ~Coprime(big.len, big.a, big.m)
        IN /\ big.status = "Err" <=> fails
           /\ big.status = "Ok" =>
                 /\ Flat(big.inv) # zero
                 /\ u64_greater(Flat(big.m), Flat(big.inv))
                 /\ MulMod(big.len, big.a, big.inv, big.m)
                       = Zeros(16 * big.len - 1) \o << 1 >>

\* C21 (amended): the same, except that for m = 1 the value returned is 0,
\* the only residue modulo 1.
C21_ModInvIsInverseAboveOne ==
    ModInvReturned =>
        LET zero == Zeros(8 * big.len)
            one == Zeros(8 * big.len - 1) \o << 1 >>
            fails == \/ Flat(big.a) = zero
                     \/ Flat(big.m) = zero
                     \/ ~Coprime(big.len, big.a, big.m)
        IN /\ big.status = "Err" <=> fails
           /\ big.status = "Ok" =>
                 /\ u64_greater(Flat(big.m), Flat(big.inv))
                 /\ IF Flat(big.m) = one THEN Flat(big.inv) = zero
                    ELSE /\ Flat(big.inv) # zero
                         /\ MulMod(big.len, big.a, big.inv, big.m)
                               = Zeros(16 * big.len - 1) \o << 1 >>

\* mod_inv_4 has inverted 2^256 - 2 modulo 2^256 - 1: the coefficient it
\* ends with is -1, and the inverse returned is m - 1, which is a itself.
C21_Witness ==
    /\ ModInvReturned
    /\ big.len = 4
    /\ big.a = Halves(4, U64_MAX, U64_MAX, U64_MAX_LESS_1)
    /\ big.m = Halves(4, U64_MAX, U64_MAX, U64_MAX)
    /\ big.status = "Ok"
    /\ big.inv = big.a

\* The low n limbs of an array.
Low(x, n) == SubSeq(x, Len(x) - n + 1, Len(x))

\* (a * b) mod m for n-limb a, b and m, by the schoolbook product and a
\* division.
RefMulMod(n, a, b, m) ==
    Low(div_rem(2 * n, Limbs(Product(Flat(a), Flat(b))), ZeroLimbs(n) \o m).rem, n)

\* a^k mod m for n-limb a and m > 1 and a number k, from the highest bit of
\* k down.
RECURSIVE RefPow(_, _, _, _)
RefPow(n, a, k, m) ==
    IF k = 0 THEN SmallLimbs(n, 1)
    ELSE LET h == RefPow(n, a, k \div 2, m)
             sq == RefMulMod(n, h, h, m)
         IN IF Len(h) # n THEN << >>
            ELSE IF k % 2 = 1 THEN RefMulMod(n, sq, a, m) ELSE sq

\* x^(2^k) mod m
RECURSIVE RefSquares(_, _, _, _)
RefSquares(n, x, k, m) ==
    IF k = 0 \/ Len(x) # n THEN x
    ELSE IF k > 1 THEN RefSquares(n, RefSquares(n, x, k \div 2, m), k - (k \div 2), m)
    ELSE RefMulMod(n, x, x, m)

\* The fewest limbs, of a quarter, a half or all of W, that hold m.
RefLimbs(W, m) ==
    LET fits == { n \in {W \div 4, W \div 2, W} : SubSeq(m, 1, W - n) = ZeroLimbs(W - n) }
    IN CHOOSE n \in fits : \A k \in fits : n <= k

\* a^exp mod m for W-limb a <= m and m > 1 and a 32-bit exp = hi * 2^16 + lo,
\* computed on the limbs the modulus has: a^exp = (a^hi)^(2^16) * a^lo.
RefExpMod(W, a, exp, m) ==
    LET n == RefLimbs(W, m)
        high == RefSquares(n, RefPow(n, Low(a, n), exp[1], Low(m, n)), 16, Low(m, n))
        low == RefPow(n, Low(a, n), exp[2], Low(m, n))
    IN ZeroLimbs(W - n)
          \o (IF exp[1] = 0 THEN RefMulMod(n, low, SmallLimbs(n, 1), Low(m, n))
              ELSE RefMulMod(n, high, low, Low(m, n)))

ExpmodReturned == big.op = "expmod" /\ "status" \in DOMAIN big

\* C22: for every odd modulus m > 1, every base a <= m and every 32-bit
\* exponent e, expmod_odd_mod(a, e, m) returns a^e mod m (1 when e = 0), and
\* it returns 0 when m = 1, whichever width profile the zero high limbs of
\* the modulus select.
C22_ExpmodIsPower ==
    (/\ ExpmodReturned
     /\ big.m[ExpWords][8] % 2 = 1
     /\ ~slice_greater_than(big.base, big.m)) =>
        /\ big.status = "Ok"
        /\ big.res = IF big.m = SmallLimbs(ExpWords, 1) THEN ZeroLimbs(ExpWords)
                     ELSE RefExpMod(ExpWords, big.base, big.exp, big.m)
        /\ (big.exp = U32(0, 0) /\ big.m # SmallLimbs(ExpWords, 1)) =>
              big.res = SmallLimbs(ExpWords, 1)

\* expmod_odd_mod has raised 2 to the power 2^32 - 1 modulo 2^256 - 1, in
\* the profile of half the limbs: 2^256 is 1 there, and 2^32 - 1 is 255
\* modulo 256, so that the result is 2^255.
C22_Witness ==
    /\ ExpmodReturned
    /\ big.m = Wide([i \in 1..4 |-> U64_MAX])
    /\ big.base = SmallLimbs(ExpWords, 2)
    /\ big.exp = U32_MAX
    /\ big.status = "Ok"
    /\ big.res = Wide(<< U64_TOP, U64_ZERO, U64_ZERO, U64_ZERO >>)

\* C23 (as stated): expmod_odd_mod returns a failure whenever the modulus is
\* zero, the modulus is even, or the base is greater than or equal to the
\* modulus.
C23_ExpmodRefusesBaseNotBelow ==
    (/\ ExpmodReturned
     /\ \/ big.m = ZeroLimbs(ExpWords)
        \/ big.m[ExpWords][8] % 2 = 0
        \/ ~slice_greater_than(big.m, big.base)) =>
        big.status = "Err"

\* C23 (amended): expmod_odd_mod returns a failure whenever the modulus is
\* zero, the modulus is even, or the base is greater than the modulus, and
\* then only; a base equal to the modulus is taken.
C23_ExpmodRefusesBaseAbove ==
    ExpmodReturned =>
        (big.status = "Err" <=>
            \/ big.m = ZeroLimbs(ExpWords)
            \/ big.m[ExpWords][8] % 2 = 0
            \/ slice_greater_than(big.base, big.m))

\* expmod_odd_mod has refused the base 2^128 raised to the power 3 modulo
\* 2^128 - 1, and the even modulus 2^128 - 2 with the base 1.
C23_Witness ==
    /\ ExpmodReturned
    /\ big.status = "Err"
    /\ big.exp = U32(0, 3)
    /\ \/ /\ big.m = Wide(<< U64_MAX, U64_MAX >>)
          /\ big.base = Wide(<< U64_ONE, U64_ZERO, U64_ZERO >>)
       \/ /\ big.m = Wide(<< U64_MAX, U64_MAX_LESS_1 >>)
          /\ big.base = SmallLimbs(ExpWords, 1)

MontReturned ==
    /\ big.op \in {"u256_mont_reduction", "u384_mont_reduction", "rsa_mont_reduction"}
    /\ "res" \in DOMAIN big

\* x mod p for an array x of twice the limbs of p.
RefMod(x, p) == div_rem(Len(x), x, ZeroLimbs(Len(x) - Len(p)) \o p).rem

\* The limbs of p that R = 2^(64 * limbs) is built on: all of them for the
\* prime fields, the width profile's for the RSA closure.
RefRLimbs(op, p) == IF op = "rsa_mont_reduction" THEN RefLimbs(ExpWords, p) ELSE Len(p)

C26_MontReductionIsCongruent ==
    MontReturned =>
        LET n == Len(big.prime)
            w == RefRLimbs(big.op, big.prime)
            shifted == ZeroLimbs(n - w) \o big.res \o ZeroLimbs(w)
        IN /\ ~slice_greater_than(big.res, big.prime)
           /\ RefMod(SubSeq(shifted, Len(shifted) - 2 * n + 1, Len(shifted)), big.prime)
                 = RefMod(big.mu, big.prime)

\* The RSA closure alone returns a result below the modulus.
C26_RsaReductionIsReduced ==
    (MontReturned /\ big.op = "rsa_mont_reduction") =>
        slice_greater_than(big.prime, big.res)

BitmapWritten == "out" \in DOMAIN codec
BitmapReadBack == BitmapWritten /\ codec.op = "read_nsec_types_bitmap"

\* C24: for every 8192-byte type table, read_nsec_types_bitmap applied to
\* exactly the bytes write_nsec_types_bitmap produced succeeds and returns
\* the original table, windows 1..255 included, and nsec_types_bitmap_len
\* equals the number of bytes written.
C24_BitmapRoundTrips ==
    /\ BitmapWritten => codec.total_len = Len(codec.out)
    /\ BitmapReadBack =>
          /\ codec.status = "Ok"
          /\ \A i \in DOMAIN codec.res \cup DOMAIN codec.types :
                TableAt(codec.res, i) = TableAt(codec.types, i)

\* The part of C24 that holds: nsec_types_bitmap_len equals the number of
\* bytes written, and a table whose bytes past window 0 are all zero is
\* read back as it was.
C24_WindowZeroRoundTrips ==
    /\ BitmapWritten => codec.total_len = Len(codec.out)
    /\ (BitmapReadBack /\ \A i \in DOMAIN codec.types : i < 32) =>
          /\ codec.status = "Ok"
          /\ \A i \in DOMAIN codec.res \cup DOMAIN codec.types :
                TableAt(codec.res, i) = TableAt(codec.types, i)

\* A table with a byte set past window 0 is never read back: the reader
\* returns an error.
C24_LaterWindowsFail ==
    (BitmapReadBack /\ \E i \in DOMAIN codec.types : i >= 32) => codec.status = "Err"

NameCall == codec.op = "read_wire_packet_name"
NameReturned == NameCall /\ codec.status \in {"Ok", "Err"}

\* C25: read_wire_packet_name returns on every packet, the packets whose
\* pointers form a cycle or point at themselves included; it follows at
\* most 255 pointers, so no name it accepts was reached through more than
\* 255 pointer hops; and it fails as soon as the decoded name exceeds 255
\* characters: it never reads on, nor accepts, with a longer name.
C25_NameReadingIsBounded ==
    /\ [](NameCall =>
            /\ codec.hops <= 255
            /\ codec.hops + codec.recursion_limit = 255
            /\ codec.status \in {"Reading", "Read", "Ok"} => Len(codec.name) <= 255
            /\ Len(codec.name) > 255 => codec.status = "Err")
    /\ <>NameReturned

\* The pointer at itself has been followed 255 times and the name refused.
C25_Witness ==
    /\ NameReturned
    /\ codec.wire_packet = << 192, 0 >>
    /\ codec.hops = 255
    /\ codec.status = "Err"

\* A name behind 255 pointers is accepted.
C25_ChainAccepted ==
    /\ NameReturned
    /\ codec.wire_packet = Chain(255, << 1, 97, 0 >>)
    /\ codec.hops = 255
    /\ codec.status = "Ok"
    /\ codec.name = << 97, Dot >>

\* After 255 pointers the bytes of one more pointer are read as the length
\* and the first byte of a label, and the name so made is accepted.
C25_PointerReadAsLabel ==
    /\ NameReturned
    /\ codec.wire_packet = Chain(255, << 192, 97 >> \o Dotted(191) \o << 0 >>)
    /\ codec.hops = 255
    /\ codec.status = "Ok"
    /\ Len(codec.name) = 193

\* The pointers on the way from a place of a packet to the end of the name
\* encoded there, counted as the encoding is laid out: a label is stepped
\* over, a pointer is followed, whatever their number; the count stops
\* above 255.
RefHopStep(p, s) ==
    IF s.cur >= Len(p) THEN [s EXCEPT !.done = TRUE]
    ELSE LET len == p[s.cur + 1]
         IN IF len = 0 THEN [s EXCEPT !.done = TRUE]
            ELSE IF len >= 192
            THEN IF s.cur + 1 >= Len(p) \/ (len % 64) * 256 + p[s.cur + 2] >= Len(p)
                 THEN [s EXCEPT !.done = TRUE]
                 ELSE [cur |-> (len % 64) * 256 + p[s.cur + 2], hops |-> s.hops + 1,
                       done |-> s.hops + 1 > 255]
            ELSE [s EXCEPT !.cur = s.cur + 1 + len]

RECURSIVE RefHopRun(_, _, _)
RefHopRun(p, n, s) ==
    IF s.done \/ n = 0 THEN s
    ELSE IF n = 1 THEN RefHopStep(p, s)
    ELSE RefHopRun(p, n - (n \div 2), RefHopRun(p, n \div 2, s))

RefHops(p, start) ==
    RefHopRun(p, 256 * (Len(p) + 1), [cur |-> start, hops |-> 0, done |-> FALSE]).hops

\* C25 (as stated): read_wire_packet_name returns on every packet, cycles of
\* pointers included; it follows at most 255 pointers; it never accepts a
\* name whose encoding is reached through more than 255 pointer hops; and
\* it fails as soon as the decoded name exceeds 255 characters.
C25_NeverAcceptsBeyond255Hops ==
    /\ [](NameCall =>
            /\ codec.hops <= 255
            /\ codec.status \in {"Reading", "Read", "Ok"} => Len(codec.name) <= 255
            /\ codec.status = "Ok" => RefHops(codec.wire_packet, codec.start) <= 255)
    /\ <>NameReturned

\* The number of responses processed successfully so far.
Successes == IF ret.op = "process_response" /\ ret.status # "Ok" THEN calls - 1 ELSE calls

DriverReturned == ~alive

\* C27: the driver loop always terminates: whatever the responses, at most
\* 20 responses are processed successfully before awaiting_responses()
\* becomes false or an error ends the loop, and then finish_proof returns
\* either the proof or the budget failure.
C27_DriverTerminates ==
    /\ [](Successes <= MAX_PROOF_STEPS)
    /\ []((DriverReturned /\ ret.op = "finish_proof") =>
            \/ ret.status = "Ok" /\ ret.proof = proof /\ ret.ttl = min_ttl
            \/ ret.status = "Err" /\ queries_made > MAX_PROOF_STEPS)
    /\ <>DriverReturned

\* Twenty responses have been processed and finish_proof has returned the
\* proof.
C27_Witness ==
    /\ DriverReturned
    /\ ret.op = "finish_proof"
    /\ ret.status = "Ok"
    /\ calls = MAX_PROOF_STEPS

\* The loop has ended over the budget and finish_proof has failed.
C27_BudgetFailure ==
    /\ DriverReturned
    /\ ret.op = "finish_proof"
    /\ ret.status = "Err"
    /\ queries_made > MAX_PROOF_STEPS

\* A step in which process_response returned an error.
FailedCall ==
    /\ calls' = calls + 1
    /\ ret'.op = "process_response"
    /\ ret'.status # "Ok"

\* C28: a failed process_response leaves the builder exactly as it was:
\* whenever it returns an error, a parse failure part-way through the answer
\* or authority section included, the proof, min_ttl, dnskeys_requested,
\* pending and total are all unchanged.
C28_FailedCallLeavesBuilder ==
    [][FailedCall =>
          UNCHANGED << proof, min_ttl, dnskeys_requested, pending_queries,
                       queries_made >>]_vars

\* What a failed call does leave alone: min_ttl, dnskeys_requested and the
\* two counters; and the proof it had is a prefix of the proof it has.
C28_FailedCallLeavesCounters ==
    [][FailedCall =>
          /\ UNCHANGED << min_ttl, dnskeys_requested, pending_queries, queries_made >>
          /\ SubSeq(proof', 1, Len(proof)) = proof]_vars

\* The names of dnskeys_requested other than the root.
NonRoot == SelectSeq(dnskeys_requested, LAMBDA n : n # ".")

\* A step in which process_response returned Ok.
AcceptedCall ==
    /\ calls' = calls + 1
    /\ ret'.op = "process_response"
    /\ ret'.status = "Ok"

\* C29: in every reachable builder state total = 1 + (number of names in
\* dnskeys_requested) + (number of non-root names in dnskeys_requested) and
\* 0 <= pending <= total; and pending = total - (number of process_response
\* calls that returned Ok): both are 1 at first, a call that returns Ok
\* takes total - pending up by exactly one, and no other step changes
\* either.
C29_CounterAccounting ==
    /\ [](/\ queries_made = 1 + Len(dnskeys_requested) + Len(NonRoot)
          /\ pending_queries >= 0
          /\ pending_queries <= queries_made
          /\ calls = 0 => (pending_queries = 1 /\ queries_made = 1))
    /\ [][/\ AcceptedCall =>
                queries_made' - pending_queries' = (queries_made - pending_queries) + 1
          /\ ~AcceptedCall => UNCHANGED << pending_queries, queries_made >>]_vars

\* Three responses were accepted; the root and another name have been
\* requested, three queries beyond the first were made, and one is pending.
C29_Witness ==
    /\ ProcessReturned /\ ret.status = "Ok"
    /\ calls = 3
    /\ Range(dnskeys_requested) = {".", "a."}
    /\ queries_made = 4
    /\ pending_queries = 1

Paired == qbuf.op = "pair"

\* C30: two QueryBufs compare equal (derived ==) if and only if the byte
\* sequences they expose are equal, however each was built: new_zeroed or
\* any chunking of extend_from_slice calls, chunkings that cross the inline
\* threshold at different points included.
C30_EqualityIsContentEquality ==
    Paired => (derived_eq(qbuf.a, qbuf.b) <=> deref(qbuf.a) = deref(qbuf.b))

\* What holds of the derived ==: equal QueryBufs expose equal bytes; and
\* QueryBufs that expose equal bytes are equal when both are inline, or when
\* neither held non-zero bytes inline before it moved to the heap.
C30_EqualBufsHaveEqualContent ==
    Paired =>
        /\ derived_eq(qbuf.a, qbuf.b) => deref(qbuf.a) = deref(qbuf.b)
        /\ (deref(qbuf.a) = deref(qbuf.b) /\ qbuf.a.buf = qbuf.b.buf)
              => derived_eq(qbuf.a, qbuf.b)
        /\ (deref(qbuf.a) = deref(qbuf.b) /\ qbuf.a.len <= STACK_BUF_LIMIT)
              => derived_eq(qbuf.a, qbuf.b)

\* Two QueryBufs expose the same STACK_BUF_LIMIT + 1 bytes and differ: one
\* took them in one slice, the other one byte first.
C30_SameBytesUnequal ==
    /\ Paired
    /\ deref(qbuf.a) = deref(qbuf.b)
    /\ qbuf.a.len = STACK_BUF_LIMIT + 1
    /\ qbuf.chunks_a = 1 /\ qbuf.chunks_b = 2
    /\ ~derived_eq(qbuf.a, qbuf.b)

====
